---------------------------- MODULE Spec2Model ----------------------------
(***************************************************************************)
(* A model of the CrossChain DSL compiler core (dsl-compiler):             *)
(*   - the AST-level optimizer (src/dsl-compiler/src/optimizer.rs),        *)
(*   - the flat-map semantic analyzer (src/dsl-compiler/src/semantic.rs),  *)
(*   - the scoped SymbolTable (src/dsl-compiler/src/semantic_analyzer.rs). *)
(* Each component has its own specification over the shared variables.     *)
(***************************************************************************)
EXTENDS Integers, Sequences, FiniteSets, TLC

(***************************************************************************)
(* Bounds of the model.                                                    *)
(***************************************************************************)
\* Expression::Number is a u64; the model keeps the wrap-around at 2^WordBits.
WordBits == 8
\* Integer literals 0..MaxLit (and the largest word) occur in generated bodies.
MaxLit == 2
\* Longest generated multi-statement function body.
MaxBodyLen == 3
\* How many times Optimizer::optimize is run on the same contract.
MaxRuns == 2

\* the deepest nesting of frames the scope operations are driven to
MaxDepth == 3
\* the longest function body given to the semantic analyzers
MaxStmts == 2
\* the most "already declared" errors a flat-map analyzer collects
MaxErrors == 2
MaxArgs == 3
MaxFaults == 1
MaxTypeDepth == 3
MaxEmits == 3
MaxConstraints == 2

Modulus == 2 ^ WordBits
MaxWord == Modulus - 1

(***************************************************************************)
(* AST (the variants the optimizer and semantic.rs match on).              *)
(***************************************************************************)
Names == {"x", "y"}

ArithOps == {"Add", "Sub", "Mul", "Div", "Mod"}
CompareOps == {"Eq", "Ne", "Lt", "Gt", "Le", "Ge"}
LogicalOps == {"And", "Or"}
OtherOps == {"Pow", "BitAnd", "BitOr", "BitXor", "Shl", "Shr"}
BinaryOp == ArithOps \cup CompareOps \cup LogicalOps \cup OtherOps
UnaryOp == {"Not", "Neg", "BitNot"}

Number(n) == [k |-> "Number", n |-> n]
Bool(b) == [k |-> "Bool", b |-> b]
String(s) == [k |-> "String", s |-> s]
Identifier(name) == [k |-> "Identifier", name |-> name]
Binary(op, left, right) == [k |-> "Binary", op |-> op, left |-> left, right |-> right]
Unary(op, expr) == [k |-> "Unary", op |-> op, expr |-> expr]
Call(func, args) == [k |-> "Call", func |-> func, args |-> args]
Index(array, index) == [k |-> "Index", array |-> array, index |-> index]

None == [some |-> FALSE]
Some(v) == [some |-> TRUE, v |-> v]

Let(name, value) == [k |-> "Let", name |-> name, value |-> value]
Assign(target, value) == [k |-> "Assign", target |-> target, value |-> value]
If(condition, then_block, else_block) ==
    [k |-> "If", condition |-> condition, then_block |-> then_block,
     else_block |-> else_block]
Require(condition, message) ==
    [k |-> "Require", condition |-> condition, message |-> message]
Return(value) == [k |-> "Return", value |-> value]
Emit(event, args) == [k |-> "Emit", event |-> event, args |-> args]
ExprStmt(expr) == [k |-> "Expression", expr |-> expr]

\* enum Type with its component types: a record tagged by the variant.  The
\* analyzers, which meet primitive types only, hold a type by its name.
UnsignedNames == {"U8", "U16", "U32", "U64", "U128", "U256"}
SignedNames == {"I8", "I16", "I32", "I64", "I128"}
PrimitiveNames == UnsignedNames \cup SignedNames \cup {"Bool", "Address", "String", "Bytes"}

Primitive(name) == [k |-> name]
MapType(key, value) == [k |-> "Map", key |-> key, value |-> value]
VecType(t) == [k |-> "Vec", t |-> t]
ArrayType(t, size) == [k |-> "Array", t |-> t, size |-> size]
TupleType(types) == [k |-> "Tuple", types |-> types]
StructType(name) == [k |-> "Struct", name |-> name]
OptionType(t) == [k |-> "Option", t |-> t]
ResultType(ok, err) == [k |-> "Result", ok |-> ok, err |-> err]

\* format!("{:?}", ty): the name of a primitive type; a compound type stands
\* for its own text
Debug(ty) == IF ty.k \in PrimitiveNames THEN ty.k ELSE ty

\* enum TypeConstraint
Equal(t1, t2) == [k |-> "Equal", t1 |-> t1, t2 |-> t2]
Subtype(sub, super) == [k |-> "Subtype", sub |-> sub, super |-> super]

(***************************************************************************)
(* Optimizer (optimizer.rs).  The optimizer struct is the record           *)
(*   [constant_values, dead_code_removed, constants_folded,                *)
(*    expressions_simplified].                                             *)
(***************************************************************************)
NewOptimizer ==
    [constant_values |-> <<>>, dead_code_removed |-> 0,
     constants_folded |-> 0, expressions_simplified |-> 0]

\* HashMap::insert / HashMap::remove on constant_values
MapInsert(m, key, v) ==
    [n \in (DOMAIN m) \cup {key} |-> IF n = key THEN v ELSE m[n]]
MapRemove(m, key) == [n \in (DOMAIN m) \ {key} |-> m[n]]

\* mutant: identifiers are tracked as if they were literals (copy propagation)
is_constant_TracksIdentifiers(expr) ==
    expr.k \in {"Number", "Bool", "String", "Identifier"}

is_constant(expr) == expr.k \in {"Number", "Bool", "String"}

is_no_op(expr) == expr.k \in {"Number", "Bool", "String"}

IsNum(e, n) == e.k = "Number" /\ e.n = n
IsBool(e, b) == e.k = "Bool" /\ e.b = b

wrapping_add(l, r) == (l + r) % Modulus
wrapping_sub(l, r) == (l - r + Modulus) % Modulus
wrapping_mul(l, r) == (l * r) % Modulus

\* mutant: a division or remainder by zero is folded to 0, and additions do
\* not wrap
fold_binary_op_FoldsDivByZero(op, left, right) ==
    CASE op = "Add" -> Number(left + right)
      [] op = "Sub" -> Number(wrapping_sub(left, right))
      [] op = "Mul" -> Number(wrapping_mul(left, right))
      [] op = "Div" -> Number(IF right # 0 THEN left \div right ELSE 0)
      [] op = "Mod" -> Number(IF right # 0 THEN left % right ELSE 0)
      [] op = "Eq" -> Bool(left = right)
      [] op = "Ne" -> Bool(left # right)
      [] op = "Lt" -> Bool(left < right)
      [] op = "Gt" -> Bool(left > right)
      [] op = "Le" -> Bool(left <= right)
      [] op = "Ge" -> Bool(left >= right)
      [] OTHER -> Binary(op, Number(left), Number(right))

fold_binary_op(op, left, right) ==
    CASE op = "Add" -> Number(wrapping_add(left, right))
      [] op = "Sub" -> Number(wrapping_sub(left, right))
      [] op = "Mul" -> Number(wrapping_mul(left, right))
      [] op = "Div" -> IF right # 0 THEN Number(left \div right)
                       ELSE Binary("Div", Number(left), Number(0))
      [] op = "Mod" -> IF right # 0 THEN Number(left % right)
                       ELSE Binary("Mod", Number(left), Number(0))
      [] op = "Eq" -> Bool(left = right)
      [] op = "Ne" -> Bool(left # right)
      [] op = "Lt" -> Bool(left < right)
      [] op = "Gt" -> Bool(left > right)
      [] op = "Le" -> Bool(left <= right)
      [] op = "Ge" -> Bool(left >= right)
      [] OTHER -> Binary(op, Number(left), Number(right))

\* The algebraic-simplification match of optimize_expression, arms in source
\* order; None when no arm matches.
Simplify(op, l, r) ==
    CASE op = "Add" /\ IsNum(r, 0) -> Some(l)
      [] op = "Add" /\ IsNum(l, 0) -> Some(r)
      [] op = "Sub" /\ IsNum(r, 0) -> Some(l)
      [] op = "Mul" /\ IsNum(r, 1) -> Some(l)
      [] op = "Mul" /\ IsNum(l, 1) -> Some(r)
      [] op = "Mul" /\ (IsNum(r, 0) \/ IsNum(l, 0)) -> Some(Number(0))
      [] op = "Div" /\ IsNum(r, 1) -> Some(l)
      [] op = "And" /\ IsBool(r, TRUE) -> Some(l)
      [] op = "And" /\ IsBool(l, TRUE) -> Some(r)
      [] op = "And" /\ (IsBool(r, FALSE) \/ IsBool(l, FALSE)) -> Some(Bool(FALSE))
      [] op = "Or" /\ IsBool(r, FALSE) -> Some(l)
      [] op = "Or" /\ IsBool(l, FALSE) -> Some(r)
      [] op = "Or" /\ (IsBool(r, TRUE) \/ IsBool(l, TRUE)) -> Some(Bool(TRUE))
      [] OTHER -> None

Folded(o) == [o EXCEPT !.constants_folded = @ + 1]
Simplified(o) == [o EXCEPT !.expressions_simplified = @ + 1]
Dead(o, n) == [o EXCEPT !.dead_code_removed = @ + n]

\* mutant: identifiers are never replaced by their tracked literal
PropagateIdentifier_Never(expr, o) == [e |-> expr, o |-> o]

\* Expression::Identifier arm: constant propagation
PropagateIdentifier(expr, o) ==
    IF expr.name \in DOMAIN o.constant_values
    THEN [e |-> o.constant_values[expr.name], o |-> Simplified(o)]
    ELSE [e |-> expr, o |-> o]

\* Expression::Binary arm, after both operands have been optimized (r is
\* the result for the right operand): fold two Numbers, else simplify
OptimizeBinary(op, left_opt, r) ==
    IF left_opt.k = "Number" /\ r.e.k = "Number"
    THEN [e |-> fold_binary_op(op, left_opt.n, r.e.n), o |-> Folded(r.o)]
    ELSE IF Simplify(op, left_opt, r.e).some
    THEN [e |-> Simplify(op, left_opt, r.e).v, o |-> Simplified(r.o)]
    ELSE [e |-> Binary(op, left_opt, r.e), o |-> r.o]

\* Expression::Unary arm, after the operand has been optimized (u)
OptimizeUnary(op, u) ==
    CASE op = "Not" /\ u.e.k = "Bool" ->
            [e |-> Bool(~u.e.b), o |-> Folded(u.o)]
      [] op = "Neg" /\ u.e.k = "Number" ->
            [e |-> Number(wrapping_add(MaxWord - u.e.n, 1)), o |-> Folded(u.o)]
      [] OTHER -> [e |-> Unary(op, u.e), o |-> u.o]

\* Expression::Call and Expression::Index arms, after the parts are optimized
OptimizeCall(func, a) == [e |-> Call(func, a.es), o |-> a.o]
OptimizeIndex(array, i) == [e |-> Index(array, i.e), o |-> i.o]

RECURSIVE optimize_expression(_, _)
RECURSIVE optimize_args(_, _)

\* args.into_iter().map(|a| self.optimize_expression(a)).collect(): the
\* arguments after the first one (h) are optimized after it
optimize_args(args, o) ==
    LET Collected(h, t) == [es |-> <<h>> \o t.es, o |-> t.o]
        RestArgs(h, rest) == Collected(h.e, optimize_args(rest, h.o))
    IN IF args = <<>> THEN [es |-> <<>>, o |-> o]
       ELSE RestArgs(optimize_expression(Head(args), o), Tail(args))

\* in the Binary arm the right operand is optimized after the left one (l)
optimize_expression(expr, o) ==
    LET RightOperand(op, l, right) ==
            OptimizeBinary(op, l.e, optimize_expression(right, l.o))
    IN
    CASE expr.k = "Identifier" -> PropagateIdentifier(expr, o)
      [] expr.k = "Binary" ->
            RightOperand(expr.op, optimize_expression(expr.left, o), expr.right)
      [] expr.k = "Unary" ->
            OptimizeUnary(expr.op, optimize_expression(expr.expr, o))
      [] expr.k = "Call" ->
            OptimizeCall(expr.func, optimize_args(expr.args, o))
      [] expr.k = "Index" ->
            OptimizeIndex(expr.array, optimize_expression(expr.index, o))
      [] OTHER -> [e |-> expr, o |-> o]

\* mutant: a Let of a literal is dropped once its literal is tracked
OptimizeLet_DropsLiteralLet(name, v) ==
    IF is_constant(v.e)
    THEN [s |-> None, o |-> [v.o EXCEPT !.constant_values = MapInsert(@, name, v.e)]]
    ELSE [s |-> Some(Let(name, v.e)), o |-> v.o]

\* Statement::Let arm, after the initializer has been optimized (v): track
\* the literal for propagation and keep the statement
OptimizeLet(name, v) ==
    [s |-> Some(Let(name, v.e)),
     o |-> IF is_constant(v.e)
           THEN [v.o EXCEPT !.constant_values = MapInsert(@, name, v.e)]
           ELSE v.o]

\* Statement::Assign arm: update or invalidate the tracked literal
OptimizeAssign(target, v) ==
    [s |-> Some(Assign(target, v.e)),
     o |-> IF is_constant(v.e)
           THEN [v.o EXCEPT !.constant_values = MapInsert(@, target, v.e)]
           ELSE [v.o EXCEPT !.constant_values = MapRemove(@, target)]]

\* Statement::Require arm: a condition that is the literal true is dead
OptimizeRequire(c, message) ==
    IF IsBool(c.e, TRUE)
    THEN [s |-> None, o |-> Dead(c.o, 1)]
    ELSE [s |-> Some(Require(c.e, message)), o |-> c.o]

\* Statement::Return, Statement::Emit and Statement::Expression arms
OptimizeReturn(v) == [s |-> Some(Return(Some(v.e))), o |-> v.o]
OptimizeEmit(event, a) == [s |-> Some(Emit(event, a.es)), o |-> a.o]
OptimizeExpression(v) ==
    IF is_no_op(v.e)
    THEN [s |-> None, o |-> Dead(v.o, 1)]
    ELSE [s |-> Some(ExprStmt(v.e)), o |-> v.o]

\* the If statement rebuilt from its optimized condition and blocks
RebuildIf(cond, then_ss, e) ==
    [s |-> Some(If(cond, then_ss, Some(e.ss))), o |-> e.o]

\* the optimized statement list with the statement h, if kept, in front
ConsStatement(h, t) ==
    [ss |-> (IF h.some THEN <<h.v>> ELSE <<>>) \o t.ss, o |-> t.o]

\* optimize_statements counts one more dead statement for every None
AfterStatement(h) == IF h.s.some THEN h.o ELSE Dead(h.o, 1)

RECURSIVE optimize_statement(_, _)
RECURSIVE optimize_statements(_, _)

\* the else-block is optimized after the then-block (t)
OptimizeElse(cond, t, else_block) ==
    IF else_block.some
    THEN RebuildIf(cond, t.ss, optimize_statements(else_block.v, t.o))
    ELSE [s |-> Some(If(cond, t.ss, None)), o |-> t.o]

\* Statement::If arm, after the condition has been optimized (c): a literal
\* condition returns a placeholder expression statement (or None) and counts
\* the statements of the dead block
OptimizeIf(c, stmt) ==
    CASE IsBool(c.e, TRUE) ->
            [s |-> Some(ExprStmt(Bool(TRUE))),
             o |-> Dead(c.o, IF stmt.else_block.some THEN Len(stmt.else_block.v) ELSE 0)]
      [] IsBool(c.e, FALSE) ->
            [s |-> IF stmt.else_block.some THEN Some(ExprStmt(Bool(FALSE))) ELSE None,
             o |-> Dead(c.o, Len(stmt.then_block))]
      [] OTHER ->
            OptimizeElse(c.e, optimize_statements(stmt.then_block, c.o), stmt.else_block)

optimize_statement(stmt, o) ==
    CASE stmt.k = "Let" ->
            OptimizeLet(stmt.name, optimize_expression(stmt.value, o))
      [] stmt.k = "Assign" ->
            OptimizeAssign(stmt.target, optimize_expression(stmt.value, o))
      [] stmt.k = "If" ->
            OptimizeIf(optimize_expression(stmt.condition, o), stmt)
      [] stmt.k = "Require" ->
            OptimizeRequire(optimize_expression(stmt.condition, o), stmt.message)
      [] stmt.k = "Return" ->
            IF stmt.value.some
            THEN OptimizeReturn(optimize_expression(stmt.value.v, o))
            ELSE [s |-> Some(Return(None)), o |-> o]
      [] stmt.k = "Emit" ->
            OptimizeEmit(stmt.event, optimize_args(stmt.args, o))
      [] stmt.k = "Expression" ->
            OptimizeExpression(optimize_expression(stmt.expr, o))

\* the statements after the first one (h) are optimized after it
optimize_statements(statements, o) ==
    LET RestStatements(h, rest) ==
            ConsStatement(h.s, optimize_statements(rest, AfterStatement(h)))
    IN IF statements = <<>> THEN [ss |-> <<>>, o |-> o]
       ELSE RestStatements(optimize_statement(Head(statements), o), Tail(statements))

\* the function with its body replaced by the optimized statements
WithBody(func, r) == [f |-> [func EXCEPT !.body = r.ss], o |-> r.o]

\* optimize_function: clear the constant tracking, then rewrite the body
optimize_function(func, o) ==
    WithBody(func, optimize_statements(func.body, [o EXCEPT !.constant_values = <<>>]))


RECURSIVE optimize_functions(_, _)

\* the loop of Optimizer::optimize over contract.functions: the functions
\* after the first one (h) are optimized after it
optimize_functions(functions, o) ==
    LET Collected(h, t) == [fs |-> <<h>> \o t.fs, o |-> t.o]
        RestFunctions(h, rest) == Collected(h.f, optimize_functions(rest, h.o))
    IN IF functions = <<>> THEN [fs |-> <<>>, o |-> o]
       ELSE RestFunctions(optimize_function(Head(functions), o), Tail(functions))


(***************************************************************************)
(* Inputs: the contracts the optimizer is run on.                          *)
(***************************************************************************)
NumLits == (0 .. MaxLit) \cup {MaxWord}

Atoms ==
    {Number(n) : n \in NumLits} \cup {Bool(b) : b \in BOOLEAN}
    \cup {String("s")} \cup {Identifier(n) : n \in Names}
    \cup {Call("f", <<>>)}

SmallAtoms ==
    {Number(0), Number(1), Bool(TRUE), Bool(FALSE), Identifier("x"), Call("f", <<>>)}
NestedOps == {"Add", "Mul", "And"}
NestedOuter == {Number(0), Number(1), Bool(TRUE), Identifier("x")}

\* the statements built around one expression
StmtsOver(e) ==
    { Let("x", e), ExprStmt(e), Require(e, None), Return(Some(e)),
      If(e, <<Assign("y", Number(1))>>, Some(<<Return(None)>>)) }

\* statements of the multi-statement bodies: bindings, assignments, branches
\* and uses of the names x and y
FlowStmts ==
    { Let("x", Number(1)),
      Let("x", Identifier("y")),
      Let("y", Binary("Add", Identifier("x"), Number(1))),
      Assign("x", Number(2)),
      Assign("x", Identifier("y")),
      If(Identifier("y"), <<Assign("x", Number(2))>>, None),
      If(Identifier("y"), <<Let("x", Identifier("y"))>>, Some(<<Assign("y", Identifier("x"))>>)),
      If(Binary("Eq", Identifier("x"), Number(1)),
         <<Let("y", Number(2))>>, Some(<<Let("y", Identifier("x"))>>)),
      If(Bool(FALSE), <<Assign("x", Number(1))>>, None),
      Require(Binary("Eq", Identifier("x"), Number(1)), Some("m")),
      Return(Some(Binary("Add", Identifier("x"), Identifier("y")))),
      Emit("E", <<Identifier("x")>>),
      ExprStmt(Call("f", <<Identifier("x")>>)),
      ExprStmt(Identifier("x")) }

RECURSIVE SeqOf(_, _)
\* the sequence <<f[1], ..., f[n]>>
SeqOf(f, n) == IF n = 0 THEN <<>> ELSE Append(SeqOf(f, n - 1), f[n])

\* optimizer_tests.rs: test_optimizer_constant_folding
FoldingBody ==
    << Let("a", Binary("Add", Number(10), Number(20))),
       Let("b", Binary("Sub", Number(100), Number(50))),
       Let("c", Binary("Mul", Number(5), Number(10))),
       Let("d", Binary("Div", Number(100), Number(2))),
       Return(Some(Binary("Add",
                  Binary("Add", Binary("Add", Identifier("a"), Identifier("b")),
                         Identifier("c")),
                  Identifier("d")))) >>

\* optimizer_tests.rs: test_optimizer_constant_propagation
PropagationBody ==
    << Let("x", Number(10)),
       Let("y", Binary("Add", Identifier("x"), Number(5))),
       Let("z", Binary("Mul", Identifier("y"), Number(2))),
       Return(Some(Identifier("z"))) >>

\* the first statement of optimizer_tests.rs: test_optimizer_dead_code_elimination
DeadIfBody ==
    << If(Bool(TRUE), <<Let("a", Number(10))>>, Some(<<Let("b", Number(20))>>)) >>

\* optimizer_tests.rs: test_optimizer_dead_code_elimination
DeadCodeBody ==
    << If(Bool(TRUE), <<Let("a", Number(10))>>, Some(<<Let("b", Number(20))>>)),
       If(Bool(FALSE), <<Let("c", Number(30))>>, None),
       Require(Bool(TRUE), Some("Always passes")) >>

SeedBodies == {FoldingBody, PropagationBody, DeadIfBody, DeadCodeBody}

Function(name, body) == [name |-> name, body |-> body]
Contract(functions) == [name |-> "C", functions |-> functions]

(***************************************************************************)
(* State.                                                                  *)
(***************************************************************************)
VARIABLES
    contract,    \* the Contract the optimizer rewrites in place
    original,    \* the contract as it was given to the first run
    previous,    \* the contract as it was before the latest run
    optimizer,   \* the Optimizer struct
    runs,        \* the number of Optimizer::optimize calls so far
    program,     \* the Contract given to the semantic analyzers
    sem_result,  \* what semantic.rs analyze returned, None before the call
    sa_result,   \* what semantic_analyzer.rs analyze returned, None before
    table,       \* a SymbolTable (semantic_analyzer.rs)
    flat,        \* the symbols, scope level and errors of a semantic.rs analyzer
    last,        \* the latest operation on table and flat, with its outcome
    invocation,  \* a `ccdsl compile` command: input, target, failing file operations
    pc,          \* the statement of compile (main.rs) to run next
    history,     \* the file operations compile has performed, in order
    outcome,     \* what compile returned, None while it runs
    source,      \* the Contract given to the code generators
    emitted,     \* the generate calls so far: the generator and the text it returned
    inference,   \* a TypeInference struct (semantic_analyzer.rs)
    solved       \* what TypeInference::solve returned, None before the call

optvars == <<contract, original, previous, optimizer, runs>>
anvars == <<program, sem_result, sa_result>>
symvars == <<table, flat, last>>
cvars == <<invocation, pc, history, outcome>>
evars == <<source, emitted>>
tvars == <<inference, solved>>
vars == <<optvars, anvars, symvars, cvars, evars, tvars>>

\* a component that a specification does not run stays idle
OptIdle ==
    /\ contract = <<>>
    /\ original = <<>>
    /\ previous = <<>>
    /\ optimizer = <<>>
    /\ runs = 0
AnIdle ==
    /\ program = <<>>
    /\ sem_result = None
    /\ sa_result = None
SymIdle ==
    /\ table = <<>>
    /\ flat = <<>>
    /\ last = <<>>
CompileIdle ==
    /\ invocation = <<>>
    /\ pc = ""
    /\ history = <<>>
    /\ outcome = None
EmitIdle ==
    /\ source = <<>>
    /\ emitted = <<>>
TypeIdle ==
    /\ inference = <<>>
    /\ solved = None

\* Optimizer::new() and the parsed contract c
OptStart(c) ==
    /\ contract = c
    /\ original = c
    /\ previous = c
    /\ optimizer = NewOptimizer
    /\ runs = 0
    /\ AnIdle
    /\ SymIdle
    /\ CompileIdle
    /\ EmitIdle
    /\ TypeIdle

OneFunction(body) == Contract(<<Function("f", body)>>)

\* The contracts the optimizer is started on: every statement kind around
\* every operator over every pair of atoms, nested operators, argument lists,
\* multi-statement bodies, two-function contracts and the bodies of the tests.
OptInit ==
    \/ \E a \in Atoms : \E s \in StmtsOver(a) : OptStart(OneFunction(<<s>>))
    \/ \E op \in BinaryOp, a \in Atoms, b \in Atoms :
          \E s \in StmtsOver(Binary(op, a, b)) : OptStart(OneFunction(<<s>>))
    \/ \E op \in UnaryOp, a \in Atoms :
          \E s \in StmtsOver(Unary(op, a)) : OptStart(OneFunction(<<s>>))
    \/ \E a \in Atoms :
          \E s \in StmtsOver(Call("f", <<a>>)) \cup StmtsOver(Index("x", a)) :
             OptStart(OneFunction(<<s>>))
    \/ \E op \in ArithOps \cup CompareOps \cup LogicalOps, a \in SmallAtoms, b \in SmallAtoms :
          \E op2 \in NestedOps, c \in NestedOuter :
             \E e \in {Binary(op2, Binary(op, a, b), c), Binary(op2, c, Binary(op, a, b))} :
                OptStart(OneFunction(<<Let("x", e)>>))
    \/ \E op \in BinaryOp, a \in Atoms, b \in Atoms : \E op2 \in UnaryOp :
          OptStart(OneFunction(<<Let("x", Unary(op2, Binary(op, a, b)))>>))
    \/ \E op \in UnaryOp, a \in Atoms : \E op2 \in UnaryOp :
          OptStart(OneFunction(<<Let("x", Unary(op2, Unary(op, a)))>>))
    \/ \E a \in Atoms, b \in Atoms : OptStart(OneFunction(<<Emit("E", <<a, b>>)>>))
    \/ \E n \in 1 .. MaxBodyLen : \E f \in [1 .. n -> FlowStmts] :
          OptStart(OneFunction(SeqOf(f, n)))
    \/ \E s \in FlowStmts, t \in FlowStmts :
          OptStart(Contract(<<Function("f", <<s>>), Function("g", <<t>>)>>))
    \/ \E b \in SeedBodies : OptStart(OneFunction(b))

\* the contract and the optimizer after the rewrite r of the functions
Rewritten(r) ==
    /\ contract' = [contract EXCEPT !.functions = r.fs]
    /\ optimizer' = r.o

\* Optimizer::optimize(&mut contract)
Optimize ==
    /\ runs < MaxRuns
    /\ Rewritten(optimize_functions(contract.functions, optimizer))
    /\ previous' = contract
    /\ runs' = runs + 1
    /\ UNCHANGED <<original, anvars, symvars, cvars, evars, tvars>>

OptNext == Optimize

OptSpec == OptInit /\ [][OptNext]_vars


(***************************************************************************)
(* Reference execution of a function body.  The repository holds no        *)
(* interpreter; this is the declared semantics of spec.md: wrapping        *)
(* integers, division and remainder by zero abort, Require reverts with    *)
(* its message, calls and Emit are observable in order, And/Or             *)
(* short-circuit, blocks are lexical scopes.                               *)
(***************************************************************************)
\* the value every external call returns
CallResult == Number(1)

RECURSIVE ReadVar(_, _)
\* the value of `name` in the innermost frame that binds it
ReadVar(frames, name) ==
    IF frames = <<>> THEN None
    ELSE LET n == Len(frames)
         IN IF name \in DOMAIN frames[n] THEN Some(frames[n][name])
            ELSE ReadVar(SubSeq(frames, 1, n - 1), name)

RECURSIVE WriteVar(_, _, _)
\* write `name` in the innermost frame that binds it (one must)
WriteVar(frames, name, v) ==
    LET n == Len(frames)
    IN IF name \in DOMAIN frames[n] THEN [frames EXCEPT ![n] = MapInsert(@, name, v)]
       ELSE Append(WriteVar(SubSeq(frames, 1, n - 1), name, v), frames[n])

EvalOk(v, trace) == [st |-> "ok", v |-> v, trace |-> trace]
EvalFail(st, trace) == [st |-> st, v |-> Bool(FALSE), trace |-> trace]

\* a strict binary operator on two values
ApplyBinary(op, l, r, trace) ==
    IF op \in ArithOps
    THEN IF l.k # "Number" \/ r.k # "Number" THEN EvalFail("stuck", trace)
         ELSE IF op = "Add" THEN EvalOk(Number((l.n + r.n) % Modulus), trace)
         ELSE IF op = "Sub" THEN EvalOk(Number((l.n - r.n) % Modulus), trace)
         ELSE IF op = "Mul" THEN EvalOk(Number((l.n * r.n) % Modulus), trace)
         ELSE IF r.n = 0 THEN EvalFail("abort", trace)
         ELSE IF op = "Div" THEN EvalOk(Number(l.n \div r.n), trace)
         ELSE EvalOk(Number(l.n % r.n), trace)
    ELSE IF op \in {"Eq", "Ne"}
    THEN IF l.k # r.k THEN EvalFail("stuck", trace)
         ELSE EvalOk(Bool((l = r) <=> (op = "Eq")), trace)
    ELSE IF op \in CompareOps
    THEN IF l.k # "Number" \/ r.k # "Number" THEN EvalFail("stuck", trace)
         ELSE EvalOk(Bool(CASE op = "Lt" -> l.n < r.n
                            [] op = "Gt" -> l.n > r.n
                            [] op = "Le" -> l.n <= r.n
                            [] op = "Ge" -> l.n >= r.n), trace)
    ELSE EvalFail("stuck", trace)

ApplyUnary(op, v, trace) ==
    IF op = "Not" /\ v.k = "Bool" THEN EvalOk(Bool(~v.b), trace)
    ELSE IF op = "Neg" /\ v.k = "Number" THEN EvalOk(Number((0 - v.n) % Modulus), trace)
    ELSE IF op = "BitNot" /\ v.k = "Number" THEN EvalOk(Number(MaxWord - v.n), trace)
    ELSE EvalFail("stuck", trace)

RECURSIVE Eval(_, _, _)
RECURSIVE EvalArgs(_, _, _)
\* the values of `args`, left to right
EvalArgs(args, frames, trace) ==
    IF args = <<>> THEN [st |-> "ok", vs |-> <<>>, trace |-> trace]
    ELSE LET h == Eval(Head(args), frames, trace)
         IN IF h.st # "ok" THEN [st |-> h.st, vs |-> <<>>, trace |-> h.trace]
            ELSE LET t == EvalArgs(Tail(args), frames, h.trace)
                 IN [t EXCEPT !.vs = <<h.v>> \o @]

Eval(e, frames, trace) ==
    IF e.k \in {"Number", "Bool", "String"} THEN EvalOk(e, trace)
    ELSE IF e.k = "Identifier"
    THEN LET v == ReadVar(frames, e.name)
         IN IF v.some THEN EvalOk(v.v, trace) ELSE EvalFail("stuck", trace)
    ELSE IF e.k = "Binary" /\ e.op \in LogicalOps
    THEN LET l == Eval(e.left, frames, trace)
         IN IF l.st # "ok" THEN l
            ELSE IF l.v.k # "Bool" THEN EvalFail("stuck", l.trace)
            ELSE IF l.v.b = (e.op = "Or") THEN l
            ELSE LET r == Eval(e.right, frames, l.trace)
                 IN IF r.st = "ok" /\ r.v.k # "Bool" THEN EvalFail("stuck", r.trace)
                    ELSE r
    ELSE IF e.k = "Binary"
    THEN LET l == Eval(e.left, frames, trace)
         IN IF l.st # "ok" THEN l
            ELSE LET r == Eval(e.right, frames, l.trace)
                 IN IF r.st # "ok" THEN r ELSE ApplyBinary(e.op, l.v, r.v, r.trace)
    ELSE IF e.k = "Unary"
    THEN LET u == Eval(e.expr, frames, trace)
         IN IF u.st # "ok" THEN u ELSE ApplyUnary(e.op, u.v, u.trace)
    ELSE IF e.k = "Call"
    THEN LET a == EvalArgs(e.args, frames, trace)
         IN IF a.st # "ok" THEN EvalFail(a.st, a.trace)
            ELSE EvalOk(CallResult, Append(a.trace, <<"call", e.func, a.vs>>))
    ELSE EvalFail("stuck", trace)

\* an execution: st is "run", "returned", "reverted", "abort" or "stuck"
\* (ill-typed or unbound, no behaviour declared); frames[1] holds the state
\* variables and parameters
Halt(s, st, trace, ret) == [s EXCEPT !.st = st, !.trace = trace, !.ret = ret]

RECURSIVE Exec(_, _)
RECURSIVE ExecStmt(_, _)
Exec(ss, s) ==
    IF ss = <<>> \/ s.st # "run" THEN s
    ELSE Exec(Tail(ss), ExecStmt(Head(ss), s))

\* a block runs in a frame of its own
ExecBlock(ss, s) ==
    LET r == Exec(ss, [s EXCEPT !.frames = Append(@, <<>>)])
    IN [r EXCEPT !.frames = SubSeq(@, 1, Len(s.frames))]

ExecStmt(stmt, s) ==
    IF stmt.k \in {"Let", "Assign", "Expression"}
    THEN LET r == Eval(IF stmt.k = "Expression" THEN stmt.expr ELSE stmt.value,
                       s.frames, s.trace)
             n == Len(s.frames)
         IN IF r.st # "ok" THEN Halt(s, r.st, r.trace, None)
            ELSE IF stmt.k = "Let"
            THEN [s EXCEPT !.trace = r.trace,
                           !.frames[n] = MapInsert(@, stmt.name, r.v)]
            ELSE IF stmt.k = "Expression" THEN [s EXCEPT !.trace = r.trace]
            ELSE IF ~ReadVar(s.frames, stmt.target).some
            THEN Halt(s, "stuck", r.trace, None)
            ELSE [s EXCEPT !.trace = r.trace,
                           !.frames = WriteVar(@, stmt.target, r.v)]
    ELSE IF stmt.k \in {"If", "Require"}
    THEN LET c == Eval(stmt.condition, s.frames, s.trace)
             t == [s EXCEPT !.trace = c.trace]
         IN IF c.st # "ok" THEN Halt(s, c.st, c.trace, None)
            ELSE IF c.v.k # "Bool" THEN Halt(s, "stuck", c.trace, None)
            ELSE IF stmt.k = "Require"
            THEN IF c.v.b THEN t ELSE Halt(s, "reverted", c.trace, stmt.message)
            ELSE IF c.v.b THEN ExecBlock(stmt.then_block, t)
            ELSE IF stmt.else_block.some THEN ExecBlock(stmt.else_block.v, t)
            ELSE t
    ELSE IF stmt.k = "Return"
    THEN IF ~stmt.value.some THEN Halt(s, "returned", s.trace, None)
         ELSE LET r == Eval(stmt.value.v, s.frames, s.trace)
              IN IF r.st # "ok" THEN Halt(s, r.st, r.trace, None)
                 ELSE Halt(s, "returned", r.trace, Some(r.v))
    ELSE \* Emit
         LET a == EvalArgs(stmt.args, s.frames, s.trace)
         IN IF a.st # "ok" THEN Halt(s, a.st, a.trace, None)
            ELSE [s EXCEPT !.trace = Append(a.trace, <<"emit", stmt.event, a.vs>>)]

\* what a caller observes of running `body` from the variable values `env`:
\* how it ended, the returned value or revert message, the calls made and
\* events emitted, and the final values of the variables (a revert or abort
\* rolls those back)
Behaviour(body, env) ==
    LET r == Exec(body, [st |-> "run", frames |-> <<env, <<>> >>,
                         trace |-> <<>>, ret |-> None])
    IN IF r.st \in {"run", "returned"}
       THEN [st |-> "returned", ret |-> r.ret, trace |-> r.trace, vars |-> r.frames[1]]
       ELSE [st |-> r.st, ret |-> r.ret, trace |-> <<>>, vars |-> env]

InitValues == {Number(0), Number(2), Bool(TRUE), Bool(FALSE)}
Envs == [Names -> InitValues]

(***************************************************************************)
(* Claims about the optimizer.                                             *)
(***************************************************************************)
Bodies(c) == [i \in DOMAIN c.functions |-> c.functions[i].body]

FreshRun == runs = 1

\* C1: Optimizer idempotence: a second run of Optimizer.optimize on an
\* already optimized contract leaves every function body as the first run
\* produced it.
C1_Idempotent == runs >= 2 => Bodies(contract) = Bodies(previous)

\* C2: the optimizer preserves observable behaviour: from every assignment
\* of values to the free variables under which the original body has a
\* declared behaviour, the optimized body ends the same way, returns the
\* same value or reverts with the same message, makes the same calls and
\* emits the same events in the same order, and leaves the same values in
\* the variables.
C2_BehaviourPreserved ==
    FreshRun =>
        \A i \in DOMAIN original.functions : \A env \in Envs :
            LET b == Behaviour(original.functions[i].body, env)
            IN b.st # "stuck" => Behaviour(contract.functions[i].body, env) = b

RECURSIVE ExprHasLiteral(_)
RECURSIVE StmtsHaveLiteral(_)
\* a Number, Bool or String literal occurs in the expression
ExprHasLiteral(e) ==
    CASE e.k \in {"Number", "Bool", "String"} -> TRUE
      [] e.k = "Binary" -> ExprHasLiteral(e.left) \/ ExprHasLiteral(e.right)
      [] e.k = "Unary" -> ExprHasLiteral(e.expr)
      [] e.k = "Call" -> \E i \in DOMAIN e.args : ExprHasLiteral(e.args[i])
      [] e.k = "Index" -> ExprHasLiteral(e.index)
      [] OTHER -> FALSE

StmtsHaveLiteral(ss) ==
    \E i \in DOMAIN ss :
       LET s == ss[i]
       IN CASE s.k \in {"Let", "Assign"} -> ExprHasLiteral(s.value)
            [] s.k = "If" -> \/ ExprHasLiteral(s.condition)
                             \/ StmtsHaveLiteral(s.then_block)
                             \/ (s.else_block.some /\ StmtsHaveLiteral(s.else_block.v))
            [] s.k = "Require" -> ExprHasLiteral(s.condition)
            [] s.k = "Return" -> s.value.some /\ ExprHasLiteral(s.value.v)
            [] s.k = "Emit" -> \E j \in DOMAIN s.args : ExprHasLiteral(s.args[j])
            [] s.k = "Expression" -> ExprHasLiteral(s.expr)

LiteralFree(c) == \A i \in DOMAIN c.functions : ~StmtsHaveLiteral(c.functions[i].body)

\* C3: a contract without any literal subterm is left unchanged by
\* Optimizer.optimize, and the three statistics counters stay at zero.
C3_LiteralFreeUnchanged ==
    (runs >= 1 /\ LiteralFree(original)) =>
        /\ Bodies(contract) = Bodies(original)
        /\ optimizer.dead_code_removed = 0
        /\ optimizer.constants_folded = 0
        /\ optimizer.expressions_simplified = 0

\* C3 witness: a literal-free body with a rebinding, a branch and a use has
\* been optimized.
C3_Witness ==
    /\ FreshRun
    /\ LiteralFree(original)
    /\ Len(original.functions[1].body) = 3
    /\ original.functions[1].body[1].k = "Let"
    /\ original.functions[1].body[2].k = "If"
    /\ original.functions[1].body[3].k = "Return"
    /\ contract = original

RECURSIVE ExprSymbols(_)
RECURSIVE FreeSymbols(_, _)
\* the identifier names an expression mentions
ExprSymbols(e) ==
    CASE e.k = "Identifier" -> {e.name}
      [] e.k = "Binary" -> ExprSymbols(e.left) \cup ExprSymbols(e.right)
      [] e.k = "Unary" -> ExprSymbols(e.expr)
      [] e.k = "Call" ->
            {e.func} \cup UNION {ExprSymbols(e.args[i]) : i \in DOMAIN e.args}
      [] e.k = "Index" -> {e.array} \cup ExprSymbols(e.index)
      [] OTHER -> {}

StmtUses(s) ==
    CASE s.k = "Let" -> ExprSymbols(s.value)
      [] s.k = "Assign" -> {s.target} \cup ExprSymbols(s.value)
      [] s.k = "If" -> ExprSymbols(s.condition)
      [] s.k = "Require" -> ExprSymbols(s.condition)
      [] s.k = "Return" -> IF s.value.some THEN ExprSymbols(s.value.v) ELSE {}
      [] s.k = "Emit" -> UNION {ExprSymbols(s.args[j]) : j \in DOMAIN s.args}
      [] s.k = "Expression" -> ExprSymbols(s.expr)

\* the names that occur free in a statement list: used (read, assigned, called
\* or indexed) outside the scope of a Let of the same name; a Let binds its
\* name for the rest of its block
FreeSymbols(ss, bound) ==
    IF ss = <<>> THEN {}
    ELSE LET s == Head(ss)
             inner == IF s.k = "If"
                      THEN FreeSymbols(s.then_block, bound)
                           \cup (IF s.else_block.some
                                 THEN FreeSymbols(s.else_block.v, bound) ELSE {})
                      ELSE {}
         IN (StmtUses(s) \ bound) \cup inner
            \cup FreeSymbols(Tail(ss), IF s.k = "Let" THEN bound \cup {s.name} ELSE bound)

\* C4: the optimizer introduces no new symbols: the names free in an
\* optimized function body are among the names free in the body it was given
\* (and so are the names that occur in it at all).
C4_NoNewSymbols ==
    runs >= 1 =>
        \A i \in DOMAIN contract.functions :
            /\ FreeSymbols(contract.functions[i].body, {})
                  \subseteq FreeSymbols(original.functions[i].body, {})
            /\ FreeSymbols(contract.functions[i].body, {})
                  \subseteq FreeSymbols(previous.functions[i].body, {})

\* C4 witness: a run has removed a free name from a body (by propagation)
\* and kept another, in a body that still binds a name.
C4_Witness ==
    /\ FreshRun
    /\ FreeSymbols(contract.functions[1].body, {}) # {}
    /\ FreeSymbols(contract.functions[1].body, {})
          # FreeSymbols(original.functions[1].body, {})
    /\ \E i \in DOMAIN contract.functions[1].body :
          contract.functions[1].body[i].k = "Let"

\* what the claim expects of Binary(op, Number(l), Number(r))
FoldExpected(op, l, r) ==
    CASE op = "Add" -> Number((l + r) % Modulus)
      [] op = "Sub" -> Number((l - r) % Modulus)
      [] op = "Mul" -> Number((l * r) % Modulus)
      [] op \in {"Div", "Mod"} /\ r = 0 -> Binary(op, Number(l), Number(0))
      [] op = "Div" -> Number(CHOOSE q \in 0 .. l : q * r <= l /\ l < (q + 1) * r)
      [] op = "Mod" -> Number(CHOOSE m \in 0 .. (r - 1) : \E q \in 0 .. l : l = q * r + m)
      [] op = "Eq" -> Bool(l = r)
      [] op = "Ne" -> Bool(~(l = r))
      [] op = "Lt" -> Bool(l < r)
      [] op = "Gt" -> Bool(r < l)
      [] op = "Le" -> Bool(~(r < l))
      [] op = "Ge" -> Bool(~(l < r))

IsNumberBinary(e) ==
    e.k = "Binary" /\ e.left.k = "Number" /\ e.right.k = "Number"

\* C5: constant folding of Binary(op, Number(l), Number(r)): Add, Sub and Mul
\* wrap modulo the word size, Div and Mod by a non-zero divisor fold to the
\* truncated quotient and remainder, Div and Mod by zero stay the same Binary
\* expression, comparisons fold to the Bool literal.
C5_ConstantFolding ==
    \A i \in DOMAIN original.functions :
        LET b == original.functions[i].body
        IN (/\ runs >= 1
            /\ Len(b) = 1
            /\ b[1].k = "Let"
            /\ IsNumberBinary(b[1].value)
            /\ b[1].value.op \in ArithOps \cup CompareOps) =>
              contract.functions[i].body =
                 <<Let(b[1].name,
                       FoldExpected(b[1].value.op, b[1].value.left.n, b[1].value.right.n))>>

\* C5 witness: an addition that overflows the word has been folded to 0, and
\* counted.
C5_Witness ==
    /\ FreshRun
    /\ original.functions[1].body = <<Let("x", Binary("Add", Number(MaxWord), Number(1)))>>
    /\ contract.functions[1].body = <<Let("x", Number(0))>>
    /\ optimizer.constants_folded = 1

\* a body made of Let and Return statements only
LetReturnBody(b) == \A i \in DOMAIN b : b[i].k \in {"Let", "Return"}

RECURSIVE LiteralBuilt(_, _)
\* the expression is built only from integer literals and the names in N
LiteralBuilt(e, N) ==
    CASE e.k = "Number" -> TRUE
      [] e.k = "Identifier" -> e.name \in N
      [] e.k = "Binary" -> LiteralBuilt(e.left, N) /\ LiteralBuilt(e.right, N)
      [] e.k = "Unary" -> LiteralBuilt(e.expr, N)
      [] OTHER -> FALSE

RECURSIVE AllRewrittenToNumbers(_, _, _)
\* every Let of `body` built from literals and the names N bound by earlier
\* such Lets is a Let of a Number in `out`, and so is every such Return
AllRewrittenToNumbers(body, out, N) ==
    IF body = <<>> THEN out = <<>>
    ELSE LET s == Head(body)
         IN /\ out # <<>>
            /\ CASE s.k = "Let" /\ LiteralBuilt(s.value, N) ->
                      /\ Head(out).k = "Let" /\ Head(out).name = s.name
                      /\ Head(out).value.k = "Number"
                      /\ AllRewrittenToNumbers(Tail(body), Tail(out), N \cup {s.name})
                 [] s.k = "Let" ->
                      AllRewrittenToNumbers(Tail(body), Tail(out), N \ {s.name})
                 [] s.k = "Return" /\ s.value.some /\ LiteralBuilt(s.value.v, N) ->
                      /\ Head(out).k = "Return" /\ Head(out).value.some
                      /\ Head(out).value.v.k = "Number"
                      /\ AllRewrittenToNumbers(Tail(body), Tail(out), N)
                 [] OTHER -> AllRewrittenToNumbers(Tail(body), Tail(out), N)

\* C6 as stated: in a straight-line body every Let whose initializer is built
\* only from integer literals and names bound by earlier such Lets is
\* rewritten to bind a Number literal, and so is a Return over those names.
C6_EveryLiteralLetFolds ==
    \A i \in DOMAIN original.functions :
        (FreshRun /\ LetReturnBody(original.functions[i].body)) =>
            AllRewrittenToNumbers(original.functions[i].body,
                                  contract.functions[i].body, {})

RECURSIVE ArithValue(_, _)
\* the value of an expression built from integer literals, the names of env
\* and Add, Sub, Mul, Div, Mod, Neg, in wrapping arithmetic; None when the
\* expression is not of that form or divides by zero
ArithValue(e, env) ==
    CASE e.k = "Number" -> Some(e.n)
      [] e.k = "Identifier" ->
            IF e.name \in DOMAIN env THEN Some(env[e.name]) ELSE None
      [] e.k = "Binary" /\ e.op \in ArithOps ->
            LET l == ArithValue(e.left, env)
                r == ArithValue(e.right, env)
            IN IF ~l.some \/ ~r.some THEN None
               ELSE IF e.op = "Add" THEN Some((l.v + r.v) % Modulus)
               ELSE IF e.op = "Sub" THEN Some((l.v - r.v) % Modulus)
               ELSE IF e.op = "Mul" THEN Some((l.v * r.v) % Modulus)
               ELSE IF r.v = 0 THEN None
               ELSE IF e.op = "Div"
                    THEN Some(CHOOSE q \in 0 .. l.v : q * r.v <= l.v /\ l.v < (q + 1) * r.v)
                    ELSE Some(CHOOSE m \in 0 .. (r.v - 1) : \E q \in 0 .. l.v : l.v = q * r.v + m)
      [] e.k = "Unary" /\ e.op = "Neg" ->
            LET u == ArithValue(e.expr, env)
            IN IF u.some THEN Some((0 - u.v) % Modulus) ELSE None
      [] OTHER -> None

RECURSIVE ArithLetsFolded(_, _, _)
\* every Let of `body` whose initializer has an arithmetic value binds that
\* Number in `out`, and every Return of such an expression returns it
ArithLetsFolded(body, out, env) ==
    IF body = <<>> THEN out = <<>>
    ELSE LET s == Head(body)
             v == IF s.k = "Let" THEN ArithValue(s.value, env)
                  ELSE IF s.value.some THEN ArithValue(s.value.v, env) ELSE None
         IN /\ out # <<>>
            /\ CASE s.k = "Let" /\ v.some ->
                      /\ Head(out) = Let(s.name, Number(v.v))
                      /\ ArithLetsFolded(Tail(body), Tail(out),
                            [n \in DOMAIN env \cup {s.name} |->
                                IF n = s.name THEN v.v ELSE env[n]])
                 [] s.k = "Let" ->
                      ArithLetsFolded(Tail(body), Tail(out),
                            [n \in DOMAIN env \ {s.name} |-> env[n]])
                 [] s.k = "Return" /\ v.some ->
                      /\ Head(out) = Return(Some(Number(v.v)))
                      /\ ArithLetsFolded(Tail(body), Tail(out), env)
                 [] OTHER -> ArithLetsFolded(Tail(body), Tail(out), env)

\* C6 (amended): in a body of Let and Return statements, every Let whose
\* initializer is built only from integer literals, names last bound by such
\* a Let, and Add, Sub, Mul, Div, Mod, Neg with no division or remainder by
\* zero,
\* is rewritten to bind the Number literal of its wrapped value, and a Return
\* of such an expression returns the Number literal of its value.
C6_ArithmeticLetsFold ==
    \A i \in DOMAIN original.functions :
        (FreshRun /\ LetReturnBody(original.functions[i].body)) =>
            ArithLetsFolded(original.functions[i].body,
                            contract.functions[i].body, <<>>)

\* C6 witness: the body of test_optimizer_constant_folding binds 30, 50, 50,
\* 50 and returns 180.
C6_Witness ==
    /\ FreshRun
    /\ original = OneFunction(FoldingBody)
    /\ contract.functions[1].body =
          << Let("a", Number(30)), Let("b", Number(50)), Let("c", Number(50)),
             Let("d", Number(50)), Return(Some(Number(180))) >>

\* the block of an If that a literal condition selects
LiveBlock(stmt, b) ==
    IF b THEN stmt.then_block
    ELSE IF stmt.else_block.some THEN stmt.else_block.v ELSE <<>>

\* C7: dead-branch elimination: an If whose optimized condition is the
\* literal Bool(true) (Bool(false)) is replaced by the optimized statements of
\* its then-block (else-block, or nothing); for the test's
\* `if (true) { let a = 10; } else { let b = 20; }` the body keeps only
\* `let a = 10` and the dead-statement counter is 1.
C7_DeadBranchReplacedByLiveBlock ==
    \A i \in DOMAIN original.functions :
        LET b == original.functions[i].body
            c == optimize_expression(b[1].condition, NewOptimizer).e
        IN /\ (FreshRun /\ Len(b) = 1 /\ b[1].k = "If" /\ c.k = "Bool") =>
                 contract.functions[i].body =
                    optimize_statements(LiveBlock(b[1], c.b), NewOptimizer).ss
           /\ (FreshRun /\ b = DeadIfBody) =>
                 /\ contract.functions[i].body = <<Let("a", Number(10))>>
                 /\ optimizer.dead_code_removed = 1

(***************************************************************************)
(* Contracts as the semantic analyzers read them: state variables,         *)
(* functions with parameters and a return type, Let with a declared type   *)
(* and mutability, While.  A Type is named by a string.                    *)
(***************************************************************************)
NumericTypes == {"U8", "U64", "U128"}
Types == NumericTypes \cup {"Bool", "Address", "String"}

StateVariable(name, ty, is_mutable) ==
    [name |-> name, ty |-> ty, is_mutable |-> is_mutable]
Parameter(name, ty, is_mutable) ==
    [name |-> name, ty |-> ty, is_mutable |-> is_mutable]
\* ty is None when the Let declares no type
LetDecl(name, ty, value, is_mutable) ==
    [k |-> "Let", name |-> name, ty |-> ty, value |-> value, is_mutable |-> is_mutable]
While(condition, body) == [k |-> "While", condition |-> condition, body |-> body]
FunctionDecl(name, params, return_type, body) ==
    [name |-> name, params |-> params, return_type |-> return_type, body |-> body]
\* events holds the names of the declared events
ContractDecl(state, events, functions) ==
    [name |-> "C", state |-> state, events |-> events, functions |-> functions]

(***************************************************************************)
(* The flat-map analyzer (semantic.rs).  The analyzer is the record        *)
(*   [symbols, scope_level, state_vars, functions, errors];                *)
(* symbols maps a name to [ty, scope_level].  An error message is a tuple  *)
(* of its format string's head and arguments.  A Result is                 *)
(*   [ok, ty, err] for a type and [ok, err, a] for a step of the analyzer. *)
(***************************************************************************)
NewAnalyzer ==
    [symbols |-> <<>>, scope_level |-> 0, state_vars |-> <<>>,
     functions |-> <<>>, errors |-> <<>>]

TypeOk(ty) == [ok |-> TRUE, ty |-> ty, err |-> <<>>]
TypeErr(err) == [ok |-> FALSE, ty |-> "", err |-> err]
StepOk(a) == [ok |-> TRUE, err |-> <<>>, a |-> a]
StepErr(err, a) == [ok |-> FALSE, err |-> err, a |-> a]
PushError(a, msg) == [a EXCEPT !.errors = Append(@, msg)]

\* only primitive types occur, so the Map and Vec arms never match
types_compatible(t1, t2) == t1 = t2 /\ t1 \in Types

get_symbol_type(name, a) ==
    IF name \in DOMAIN a.symbols THEN TypeOk(a.symbols[name].ty)
    ELSE IF name \in DOMAIN a.state_vars THEN TypeOk(a.state_vars[name])
    ELSE TypeErr(<<"Unknown symbol", name>>)

\* the match on the operator, given the types of both operands
SemBinaryType(op, left_type, right_type) ==
    IF op \in ArithOps
    THEN IF left_type \in NumericTypes /\ types_compatible(left_type, right_type)
         THEN TypeOk(left_type)
         ELSE TypeErr(<<"Arithmetic operations require numeric types">>)
    ELSE IF op \in {"Eq", "Ne"}
    THEN IF types_compatible(left_type, right_type) THEN TypeOk("Bool")
         ELSE TypeErr(<<"Cannot compare different types">>)
    ELSE IF op \in CompareOps
    THEN IF left_type \in NumericTypes /\ types_compatible(left_type, right_type)
         THEN TypeOk("Bool")
         ELSE TypeErr(<<"Comparison requires numeric types">>)
    ELSE IF left_type = "Bool" /\ right_type = "Bool" THEN TypeOk("Bool")
         ELSE TypeErr(<<"Logical operators require boolean types">>)

SemUnaryType(op, u) ==
    IF ~u.ok THEN u
    ELSE IF op = "Not"
    THEN IF u.ty = "Bool" THEN TypeOk("Bool")
         ELSE TypeErr(<<"NOT operator requires boolean type">>)
    ELSE IF u.ty \in NumericTypes THEN u
         ELSE TypeErr(<<"Negation requires numeric type">>)

\* the index of a name whose type is no collection
SemIndexType(array_type, i) ==
    IF ~array_type.ok THEN array_type
    ELSE IF ~i.ok THEN i
    ELSE TypeErr(<<"Cannot index non-collection type">>)

RECURSIVE sem_infer_expression_type(_, _)
RECURSIVE SemCheckArgs(_, _, _, _)

\* let left_type = self.infer_expression_type(left)?; then
\* let right_type = self.infer_expression_type(right)?; then the match
SemBinaryLeft(op, l, right, a) ==
    LET RightOperand(r) == IF ~r.ok THEN r ELSE SemBinaryType(op, l.ty, r.ty)
    IN IF ~l.ok THEN l
       ELSE RightOperand(sem_infer_expression_type(right, a))

\* one turn of the loop over args.iter().zip(&sig.params); a parameter of a
\* signature is the pair <<name, type>>
SemCheckArg(arg_type, args, params, func, a) ==
    IF ~arg_type.ok THEN arg_type
    ELSE IF ~types_compatible(arg_type.ty, Head(params)[2])
    THEN TypeErr(<<"Type mismatch in function call", func>>)
    ELSE SemCheckArgs(Tail(args), Tail(params), func, a)

SemCheckArgs(args, params, func, a) ==
    IF args = <<>> \/ params = <<>>
    THEN IF a.functions[func].return_type.some
         THEN TypeOk(a.functions[func].return_type.v)
         ELSE TypeErr(<<"Function has no return type", func>>)
    ELSE SemCheckArg(sem_infer_expression_type(Head(args), a), args, params, func, a)

SemCallType(func, args, a) ==
    IF func \notin DOMAIN a.functions THEN TypeErr(<<"Unknown function", func>>)
    ELSE IF Len(args) # Len(a.functions[func].params)
    THEN TypeErr(<<"Function expects arguments", func,
                   Len(a.functions[func].params), Len(args)>>)
    ELSE SemCheckArgs(args, a.functions[func].params, func, a)

sem_infer_expression_type(expr, a) ==
    CASE expr.k = "Number" -> TypeOk("U64")
      [] expr.k = "Bool" -> TypeOk("Bool")
      [] expr.k = "String" -> TypeOk("String")
      [] expr.k = "Identifier" -> get_symbol_type(expr.name, a)
      [] expr.k = "Binary" ->
            SemBinaryLeft(expr.op, sem_infer_expression_type(expr.left, a), expr.right, a)
      [] expr.k = "Unary" ->
            SemUnaryType(expr.op, sem_infer_expression_type(expr.expr, a))
      [] expr.k = "Call" -> SemCallType(expr.func, expr.args, a)
      [] expr.k = "Index" ->
            SemIndexType(get_symbol_type(expr.array, a),
                         sem_infer_expression_type(expr.index, a))

\* mutant: exit_scope keeps the symbols of the scope being left
sem_exit_scope_KeepsExiting(a) ==
    [a EXCEPT !.scope_level = @ - 1]

sem_enter_scope(a) == [a EXCEPT !.scope_level = @ + 1]

\* symbols.retain(|_, info| info.scope_level < self.scope_level)
sem_exit_scope(a) ==
    [a EXCEPT !.symbols = [n \in {m \in DOMAIN @ : @[m].scope_level < a.scope_level} |-> @[n]],
              !.scope_level = @ - 1]

add_symbol(name, ty, is_mutable, a) ==
    IF name \in DOMAIN a.symbols
    THEN PushError(a, <<"Variable already declared", name>>)
    ELSE [a EXCEPT !.symbols = MapInsert(@, name,
               [ty |-> ty, scope_level |-> a.scope_level, is_mutable |-> is_mutable])]

\* Statement::Let arm, the initializer typed
SemLet(name, value_type, a) ==
    IF ~value_type.ok THEN StepErr(value_type.err, a)
    ELSE StepOk(add_symbol(name, value_type.ty, FALSE, a))

\* Statement::Assign arm, target and value typed
SemAssign(target_type, value_type, a) ==
    IF ~target_type.ok THEN StepErr(target_type.err, a)
    ELSE IF ~value_type.ok THEN StepErr(value_type.err, a)
    ELSE IF ~types_compatible(target_type.ty, value_type.ty)
    THEN StepOk(PushError(a, <<"Type mismatch: cannot assign", value_type.ty, target_type.ty>>))
    ELSE StepOk(a)

\* a condition that is typed but not boolean is collected under msg
SemCondition(cond_type, msg, a) ==
    IF ~cond_type.ok THEN StepErr(cond_type.err, a)
    ELSE IF cond_type.ty # "Bool" THEN StepOk(PushError(a, msg))
    ELSE StepOk(a)

\* an expression typed for its errors only
SemTyped(t, a) == IF t.ok THEN StepOk(a) ELSE StepErr(t.err, a)

\* self.exit_scope() is reached only when no statement of the block failed
SemExitBlock(r) == IF r.ok THEN StepOk(sem_exit_scope(r.a)) ELSE r

RECURSIVE analyze_statement(_, _)
RECURSIVE analyze_statements(_, _)
RECURSIVE SemEmitArgs(_, _)

\* for s in block { self.analyze_statement(s)?; }
analyze_statements(block, a) ==
    LET RestStatements(r, rest) == IF r.ok THEN analyze_statements(rest, r.a) ELSE r
    IN IF block = <<>> THEN StepOk(a)
       ELSE RestStatements(analyze_statement(Head(block), a), Tail(block))

SemBlock(block, a) == SemExitBlock(analyze_statements(block, sem_enter_scope(a)))

\* the else-block, after the then-block (r)
SemElse(r, else_block) ==
    IF r.ok /\ else_block.some THEN SemBlock(else_block.v, r.a) ELSE r

\* the blocks of an If, after its condition (c)
SemIfBlocks(c, stmt) ==
    IF c.ok THEN SemElse(SemBlock(stmt.then_block, c.a), stmt.else_block) ELSE c

\* for arg in args { self.infer_expression_type(arg)?; }
SemEmitArgs(args, a) ==
    LET RestArgs(r, rest) == IF r.ok THEN SemEmitArgs(rest, r.a) ELSE r
    IN IF args = <<>> THEN StepOk(a)
       ELSE RestArgs(SemTyped(sem_infer_expression_type(Head(args), a), a), Tail(args))

analyze_statement(stmt, a) ==
    CASE stmt.k = "Let" ->
            SemLet(stmt.name, sem_infer_expression_type(stmt.value, a), a)
      [] stmt.k = "Assign" ->
            SemAssign(get_symbol_type(stmt.target, a),
                      sem_infer_expression_type(stmt.value, a), a)
      [] stmt.k = "If" ->
            SemIfBlocks(SemCondition(sem_infer_expression_type(stmt.condition, a),
                                     <<"If condition must be boolean">>, a), stmt)
      [] stmt.k = "Require" ->
            SemCondition(sem_infer_expression_type(stmt.condition, a),
                         <<"Require condition must be boolean">>, a)
      [] stmt.k = "Emit" -> SemEmitArgs(stmt.args, a)
      [] stmt.k = "Return" ->
            IF stmt.value.some
            THEN SemTyped(sem_infer_expression_type(stmt.value.v, a), a)
            ELSE StepOk(a)
      [] stmt.k = "Expression" ->
            SemTyped(sem_infer_expression_type(stmt.expr, a), a)

RECURSIVE register_state_vars(_, _)
register_state_vars(vars_, a) ==
    IF vars_ = <<>> THEN a
    ELSE register_state_vars(Tail(vars_),
            IF Head(vars_).name \in DOMAIN a.state_vars
            THEN PushError(a, <<"Duplicate state variable", Head(vars_).name>>)
            ELSE [a EXCEPT !.state_vars = MapInsert(@, Head(vars_).name, Head(vars_).ty)])

\* FunctionSignature { params, return_type, .. }
Signature(func) ==
    [params |-> [i \in DOMAIN func.params |-> <<func.params[i].name, func.params[i].ty>>],
     return_type |-> func.return_type]

RECURSIVE register_functions(_, _)
register_functions(functions, a) ==
    IF functions = <<>> THEN a
    ELSE register_functions(Tail(functions),
            IF Head(functions).name \in DOMAIN a.functions
            THEN PushError(a, <<"Duplicate function", Head(functions).name>>)
            ELSE [a EXCEPT !.functions = MapInsert(@, Head(functions).name,
                                                  Signature(Head(functions)))])

add_builtins(a) ==
    [a EXCEPT !.functions = MapInsert(@, "msg_sender",
                                [params |-> <<>>, return_type |-> Some("Address")])]

RECURSIVE SemAddParams(_, _)
\* for param in &func.params { self.add_symbol(&param.name, &param.ty, false)?; }
SemAddParams(params, a) ==
    IF params = <<>> THEN a
    ELSE SemAddParams(Tail(params), add_symbol(Head(params).name, Head(params).ty, FALSE, a))

analyze_function(func, a) ==
    SemExitBlock(analyze_statements(func.body,
                                    SemAddParams(func.params, sem_enter_scope(a))))

RECURSIVE SemFunctions(_, _)
\* for func in &contract.functions { self.analyze_function(func)?; }
SemFunctions(functions, a) ==
    LET RestFunctions(r, rest) == IF r.ok THEN SemFunctions(rest, r.a) ELSE r
    IN IF functions = <<>> THEN StepOk(a)
       ELSE RestFunctions(analyze_function(Head(functions), a), Tail(functions))

\* what analyze returns: Ok, or an Err whose text holds the messages of
\* `reported`; a is the analyzer as analyze leaves it
SemReport(r) ==
    IF ~r.ok THEN [ok |-> FALSE, reported |-> <<r.err>>, a |-> r.a]
    ELSE [ok |-> r.a.errors = <<>>, reported |-> r.a.errors, a |-> r.a]

sem_analyze(c) ==
    SemReport(SemFunctions(c.functions,
        add_builtins(register_functions(c.functions,
                        register_state_vars(c.state, NewAnalyzer)))))

(***************************************************************************)
(* SymbolTable (semantic_analyzer.rs): the record                          *)
(*   [scopes, current_scope_level]; scopes is the Vec of frames, outermost *)
(* first, each frame a map from a name to its Symbol.                      *)
(***************************************************************************)
NewSymbolTable == [scopes |-> << <<>> >>, current_scope_level |-> 0]

Symbol(name, ty, kind, mutable, scope_level) ==
    [name |-> name, ty |-> ty, kind |-> kind, mutable |-> mutable,
     scope_level |-> scope_level]

enter_scope(t) ==
    [t EXCEPT !.scopes = Append(@, <<>>), !.current_scope_level = @ + 1]

\* an exit_scope that pops the frame and keeps the level
exit_scope_KeepsLevel(t) ==
    IF Len(t.scopes) > 1
    THEN [t EXCEPT !.scopes = SubSeq(@, 1, Len(@) - 1)]
    ELSE t

exit_scope(t) ==
    IF Len(t.scopes) > 1
    THEN [t EXCEPT !.scopes = SubSeq(@, 1, Len(@) - 1), !.current_scope_level = @ - 1]
    ELSE t

\* Result<()> with the table as declare leaves it
declare(symbol, t) ==
    IF t.scopes = <<>> THEN [ok |-> FALSE, err |-> <<"No current scope">>, t |-> t]
    ELSE IF symbol.name \in DOMAIN t.scopes[Len(t.scopes)]
    THEN [ok |-> FALSE, err |-> <<"Symbol already declared in current scope", symbol.name>>,
          t |-> t]
    ELSE [ok |-> TRUE, err |-> <<>>,
          t |-> [t EXCEPT !.scopes[Len(t.scopes)] = MapInsert(@, symbol.name, symbol)]]

RECURSIVE LookupFrom(_, _, _)
\* for scope in self.scopes.iter().rev(), from frame i down
LookupFrom(t, name, i) ==
    IF i = 0 THEN None
    ELSE IF name \in DOMAIN t.scopes[i] THEN Some(t.scopes[i][name])
    ELSE LookupFrom(t, name, i - 1)

lookup(t, name) == LookupFrom(t, name, Len(t.scopes))

(***************************************************************************)
(* The constraint-collecting analyzer (semantic_analyzer.rs).  Its state   *)
(* is the record [symbol_table, current_return_type, errors, events,       *)
(* constraints]; a constraint Equal(t1, t2) is the pair <<t1, t2>>.  A     *)
(* Result carries the state: [ok, ty, err, x] for a type and [ok, err, x]  *)
(* for a statement.                                                        *)
(***************************************************************************)
NewTypeContext ==
    [symbol_table |-> NewSymbolTable, current_return_type |-> None,
     errors |-> <<>>, events |-> {}, constraints |-> <<>>]

InferOk(ty, x) == [ok |-> TRUE, ty |-> ty, err |-> <<>>, x |-> x]
InferErr(err, x) == [ok |-> FALSE, ty |-> "", err |-> err, x |-> x]
CheckOk(x) == [ok |-> TRUE, err |-> <<>>, x |-> x]
CheckErr(err, x) == [ok |-> FALSE, err |-> err, x |-> x]
add_error(x, message) == [x EXCEPT !.errors = Append(@, message)]
\* type_inference.add_constraint(TypeConstraint::Equal(t1, t2)) on types held
\* by name
add_constraint(x, t1, t2) ==
    [x EXCEPT !.constraints = Append(@, Equal(Primitive(t1), Primitive(t2)))]

\* Expression::Identifier arm
SaIdentifierType(name, x) ==
    IF lookup(x.symbol_table, name).some
    THEN InferOk(lookup(x.symbol_table, name).v.ty, x)
    ELSE InferErr(<<"Undefined identifier", name>>, x)

\* the match on the operator, both operands typed (r for the right one)
SaBinaryType(op, left_type, r) ==
    IF ~r.ok THEN r
    ELSE IF op \in ArithOps
    THEN InferOk(left_type, add_constraint(r.x, left_type, r.ty))
    ELSE IF op \in CompareOps
    THEN InferOk("Bool", add_constraint(r.x, left_type, r.ty))
    ELSE IF op \in LogicalOps
    THEN InferOk("Bool", add_constraint(add_constraint(r.x, left_type, "Bool"),
                                        r.ty, "Bool"))
    ELSE InferOk(left_type, r.x)

SaUnaryType(op, u) ==
    IF ~u.ok THEN u
    ELSE IF op = "Not" THEN InferOk("Bool", add_constraint(u.x, u.ty, "Bool"))
    ELSE u

RECURSIVE sa_infer_expression_type(_, _)

SaBinaryLeft(op, l, right) ==
    IF ~l.ok THEN l
    ELSE SaBinaryType(op, l.ty, sa_infer_expression_type(right, l.x))

\* a call names its function by an identifier: the placeholder type U64;
\* every other expression has the default type U64
sa_infer_expression_type(expr, x) ==
    CASE expr.k = "Number" -> InferOk("U64", x)
      [] expr.k = "Bool" -> InferOk("Bool", x)
      [] expr.k = "String" -> InferOk("String", x)
      [] expr.k = "Identifier" -> SaIdentifierType(expr.name, x)
      [] expr.k = "Binary" ->
            SaBinaryLeft(expr.op, sa_infer_expression_type(expr.left, x), expr.right)
      [] expr.k = "Unary" ->
            SaUnaryType(expr.op, sa_infer_expression_type(expr.expr, x))
      [] OTHER -> InferOk("U64", x)

\* self.context.symbol_table.declare(symbol)?
SaDeclare(symbol, x) ==
    LET Declared(d) ==
            IF d.ok THEN CheckOk([x EXCEPT !.symbol_table = d.t]) ELSE CheckErr(d.err, x)
    IN Declared(declare(symbol, x.symbol_table))

\* a Symbol whose scope_level is the table's current_scope_level
SaSymbol(name, ty, kind, mutable, x) ==
    Symbol(name, ty, kind, mutable, x.symbol_table.current_scope_level)

\* Statement::Let arm, the initializer typed (v): a declared type is
\* constrained to the initializer's and becomes the symbol's type
SaLet(stmt, v) ==
    IF ~v.ok THEN CheckErr(v.err, v.x)
    ELSE IF stmt.ty.some
    THEN SaDeclare(SaSymbol(stmt.name, stmt.ty.v, "LocalVariable", stmt.is_mutable, v.x),
                   add_constraint(v.x, v.ty, stmt.ty.v))
    ELSE SaDeclare(SaSymbol(stmt.name, v.ty, "LocalVariable", stmt.is_mutable, v.x), v.x)

\* check_lvalue of an identifier target
check_lvalue(name, x) ==
    IF lookup(x.symbol_table, name).some
    THEN InferOk(lookup(x.symbol_table, name).v.ty, x)
    ELSE InferErr(<<"Undefined variable", name>>, x)

\* check_lvalue_mutability of an identifier target
check_lvalue_mutability(name, x) ==
    IF lookup(x.symbol_table, name).some /\ ~lookup(x.symbol_table, name).v.mutable
    THEN add_error(x, <<"Cannot assign to immutable variable", name>>)
    ELSE x

\* Statement::Assign arm, target (t) and value (v) typed
SaAssignValue(target, target_type, v) ==
    IF ~v.ok THEN CheckErr(v.err, v.x)
    ELSE CheckOk(add_constraint(check_lvalue_mutability(target, v.x), target_type, v.ty))

\* a condition must be boolean
SaCondition(c) ==
    IF ~c.ok THEN CheckErr(c.err, c.x)
    ELSE CheckOk(add_constraint(c.x, c.ty, "Bool"))

\* Statement::Return arm with a value, typed (v)
SaReturnValue(v) ==
    IF ~v.ok THEN CheckErr(v.err, v.x)
    ELSE IF v.x.current_return_type.some
    THEN CheckOk(add_constraint(v.x, v.ty, v.x.current_return_type.v))
    ELSE CheckOk(add_error(v.x, <<"Return statement in void function">>))

SaTyped(v) == IF v.ok THEN CheckOk(v.x) ELSE CheckErr(v.err, v.x)

\* exit_scope is reached only when no statement of the block failed
SaExitBlock(r) ==
    IF r.ok THEN CheckOk([r.x EXCEPT !.symbol_table = exit_scope(@)]) ELSE r

SaEnterScope(x) == [x EXCEPT !.symbol_table = enter_scope(@)]

RECURSIVE check_statement(_, _)
RECURSIVE check_statements(_, _)
RECURSIVE SaEmitArgs(_, _)

SaAssign(stmt, t) ==
    IF ~t.ok THEN CheckErr(t.err, t.x)
    ELSE SaAssignValue(stmt.target, t.ty, sa_infer_expression_type(stmt.value, t.x))

\* for stmt in block { self.check_statement(stmt)?; }
check_statements(block, x) ==
    LET RestStatements(r, rest) == IF r.ok THEN check_statements(rest, r.x) ELSE r
    IN IF block = <<>> THEN CheckOk(x)
       ELSE RestStatements(check_statement(Head(block), x), Tail(block))

SaBlock(block, x) == SaExitBlock(check_statements(block, SaEnterScope(x)))

SaElse(r, else_block) ==
    IF r.ok /\ else_block.some THEN SaBlock(else_block.v, r.x) ELSE r

SaIfBlocks(c, stmt) ==
    IF c.ok THEN SaElse(SaBlock(stmt.then_block, c.x), stmt.else_block) ELSE c

SaWhileBody(c, stmt) == IF c.ok THEN SaBlock(stmt.body, c.x) ELSE c

\* for arg in args { self.infer_expression_type(arg)?; }
SaEmitArgs(args, x) ==
    LET RestArgs(r, rest) == IF r.ok THEN SaEmitArgs(rest, r.x) ELSE r
    IN IF args = <<>> THEN CheckOk(x)
       ELSE RestArgs(SaTyped(sa_infer_expression_type(Head(args), x)), Tail(args))

check_statement(stmt, x) ==
    CASE stmt.k = "Let" -> SaLet(stmt, sa_infer_expression_type(stmt.value, x))
      [] stmt.k = "Assign" -> SaAssign(stmt, check_lvalue(stmt.target, x))
      [] stmt.k = "If" ->
            SaIfBlocks(SaCondition(sa_infer_expression_type(stmt.condition, x)), stmt)
      [] stmt.k = "While" ->
            SaWhileBody(SaCondition(sa_infer_expression_type(stmt.condition, x)), stmt)
      [] stmt.k = "Return" ->
            IF stmt.value.some
            THEN SaReturnValue(sa_infer_expression_type(stmt.value.v, x))
            ELSE IF x.current_return_type.some
            THEN CheckOk(add_error(x, <<"Return statement must return a value">>))
            ELSE CheckOk(x)
      [] stmt.k = "Require" ->
            SaCondition(sa_infer_expression_type(stmt.condition, x))
      [] stmt.k = "Emit" ->
            IF stmt.event \notin x.events
            THEN CheckOk(add_error(x, <<"Unknown event", stmt.event>>))
            ELSE SaEmitArgs(stmt.args, x)
      [] stmt.k = "Expression" -> SaTyped(sa_infer_expression_type(stmt.expr, x))

RECURSIVE all_paths_return(_)
all_paths_return(statements) ==
    IF statements = <<>> THEN FALSE
    ELSE IF Head(statements).k = "Return" THEN TRUE
    ELSE IF /\ Head(statements).k = "If"
            /\ Head(statements).else_block.some
            /\ all_paths_return(Head(statements).then_block)
            /\ all_paths_return(Head(statements).else_block.v)
    THEN TRUE
    ELSE all_paths_return(Tail(statements))

RECURSIVE SaParams(_, _)
\* for param in &function.params { self.context.symbol_table.declare(symbol)?; }
SaParams(params, x) ==
    LET RestParams(r, rest) == IF r.ok THEN SaParams(rest, r.x) ELSE r
    IN IF params = <<>> THEN CheckOk(x)
       ELSE RestParams(SaDeclare(SaSymbol(Head(params).name, Head(params).ty, "Parameter",
                                          Head(params).is_mutable, x), x), Tail(params))

SaBody(r, body) == IF r.ok THEN check_statements(body, r.x) ELSE r

\* the return-path check and exit_scope, reached when the body did not fail
SaFunctionEnd(r, function) ==
    IF ~r.ok THEN r
    ELSE IF function.return_type.some /\ ~all_paths_return(function.body)
    THEN SaExitBlock(CheckOk(add_error(r.x,
             <<"Function must return a value on all paths", function.name,
               function.return_type.v>>)))
    ELSE SaExitBlock(r)

check_function(function, x) ==
    SaFunctionEnd(
        SaBody(SaParams(function.params,
                        SaEnterScope([x EXCEPT !.current_return_type = function.return_type])),
               function.body),
        function)

RECURSIVE register_state_variables(_, _)
\* for state_var in &contract.state { .. declare(symbol)?; }
register_state_variables(state, x) ==
    LET RestStateVariables(r, rest) ==
            IF r.ok THEN register_state_variables(rest, r.x) ELSE r
    IN IF state = <<>> THEN CheckOk(x)
       ELSE RestStateVariables(
                SaDeclare(Symbol(Head(state).name, Head(state).ty, "StateVariable",
                                 Head(state).is_mutable, 0), x),
                Tail(state))

\* register_types, the events only
register_types(c, x) == [x EXCEPT !.events = c.events]

RECURSIVE SaFunctions(_, _)
\* for function in &contract.functions { self.check_function(function)?; },
\* after the passes before it (r)
SaFunctions(r, functions) ==
    IF ~r.ok \/ functions = <<>> THEN r
    ELSE SaFunctions(check_function(Head(functions), r.x), Tail(functions))

RECURSIVE unify(_, _)
\* TypeInference::unify: of the primitive types only these four unify with
\* themselves; Map, Vec, Option and Result unify by their components
unify(t1, t2) ==
    IF t1.k = t2.k /\ t1.k \in {"U8", "U64", "Bool", "Address"}
    THEN [ok |-> TRUE, err |-> <<>>]
    ELSE IF t1.k = "Map" /\ t2.k = "Map"
    THEN IF ~unify(t1.key, t2.key).ok THEN unify(t1.key, t2.key)
         ELSE unify(t1.value, t2.value)
    ELSE IF t1.k = "Vec" /\ t2.k = "Vec" THEN unify(t1.t, t2.t)
    ELSE IF t1.k = "Option" /\ t2.k = "Option" THEN unify(t1.t, t2.t)
    ELSE IF t1.k = "Result" /\ t2.k = "Result"
    THEN IF ~unify(t1.ok, t2.ok).ok THEN unify(t1.ok, t2.ok)
         ELSE unify(t1.err, t2.err)
    ELSE [ok |-> FALSE, err |-> <<"Cannot unify", Debug(t1), Debug(t2)>>]

\* TypeInference::is_subtype: the unsigned promotions, and `t1 == t2` read as
\* equality of the two type values
is_subtype(sub, super) ==
    \/ sub.k = "U8" /\ super.k \in {"U16", "U32", "U64", "U128"}
    \/ sub.k = "U16" /\ super.k \in {"U32", "U64", "U128"}
    \/ sub.k = "U32" /\ super.k \in {"U64", "U128"}
    \/ sub.k = "U64" /\ super.k = "U128"
    \/ sub = super

\* the constraint checked by one turn of the loop of solve
SolveOne(c) ==
    IF c.k = "Equal" THEN unify(c.t1, c.t2)
    ELSE IF is_subtype(c.sub, c.super) THEN [ok |-> TRUE, err |-> <<>>]
    ELSE [ok |-> FALSE, err |-> <<"is not a subtype of", Debug(c.sub), Debug(c.super)>>]

RECURSIVE solve(_)
\* TypeInference::solve: the constraints are popped from the end; the result
\* carries the constraints left in the Vec
solve(constraints) ==
    IF constraints = <<>> THEN [ok |-> TRUE, err |-> <<>>, constraints |-> <<>>]
    ELSE IF ~SolveOne(constraints[Len(constraints)]).ok
    THEN [ok |-> FALSE, err |-> SolveOne(constraints[Len(constraints)]).err,
          constraints |-> SubSeq(constraints, 1, Len(constraints) - 1)]
    ELSE solve(SubSeq(constraints, 1, Len(constraints) - 1))

\* what analyze returns, as for the flat-map analyzer
SaReport(r) ==
    IF ~r.ok THEN [ok |-> FALSE, reported |-> <<r.err>>, x |-> r.x]
    ELSE IF ~solve(r.x.constraints).ok
    THEN [ok |-> FALSE, reported |-> <<solve(r.x.constraints).err>>, x |-> r.x]
    ELSE [ok |-> r.x.errors = <<>>, reported |-> r.x.errors, x |-> r.x]

sa_analyze(c) ==
    SaReport(SaFunctions(register_state_variables(c.state, register_types(c, NewTypeContext)),
                         c.functions))

(***************************************************************************)
(* The scope operations.  The same enter, exit and declare calls drive a   *)
(* SymbolTable (semantic_analyzer.rs) and the symbols of a flat-map        *)
(* analyzer (semantic.rs), as check_function/check_statement and           *)
(* analyze_function/analyze_statement make them.                           *)
(***************************************************************************)
SymNames == {"a", "b"}
SymTypes == {"U64", "Bool"}

Operation(op, name, ty, ok) == [op |-> op, name |-> name, ty |-> ty, ok |-> ok]

\* SymbolTable::new() and SemanticAnalyzer::new()
SymInit ==
    /\ OptIdle
    /\ AnIdle
    /\ CompileIdle
    /\ EmitIdle
    /\ TypeIdle
    /\ table = NewSymbolTable
    /\ flat = NewAnalyzer
    /\ last = Operation("new", "", "", TRUE)

\* the table and the outcome of a declare call (d)
Declared(d, name, ty) ==
    /\ table' = d.t
    /\ last' = Operation("declare", name, ty, d.ok)

\* symbol_table.enter_scope() / self.enter_scope()
EnterScope ==
    /\ Len(table.scopes) < MaxDepth
    /\ table' = enter_scope(table)
    /\ flat' = sem_enter_scope(flat)
    /\ last' = Operation("enter_scope", "", "", TRUE)
    /\ UNCHANGED <<optvars, anvars, cvars, evars, tvars>>

\* symbol_table.exit_scope() / self.exit_scope() of an entered scope
ExitScope ==
    /\ Len(table.scopes) > 1
    /\ table' = exit_scope(table)
    /\ flat' = sem_exit_scope(flat)
    /\ last' = Operation("exit_scope", "", "", TRUE)
    /\ UNCHANGED <<optvars, anvars, cvars, evars, tvars>>

\* SymbolTable::exit_scope() with only the outermost frame left
ExitOutermost ==
    /\ Len(table.scopes) = 1
    /\ table' = exit_scope(table)
    /\ last' = Operation("exit_outermost", "", "", TRUE)
    /\ UNCHANGED <<flat, optvars, anvars, cvars, evars, tvars>>

\* symbol_table.declare(symbol) / self.add_symbol(name, ty, false)
Declare ==
    /\ Len(flat.errors) < MaxErrors
    /\ \E name \in SymNames, ty \in SymTypes :
          /\ Declared(declare(Symbol(name, ty, "LocalVariable", FALSE,
                                     table.current_scope_level), table), name, ty)
          /\ flat' = add_symbol(name, ty, FALSE, flat)
    /\ UNCHANGED <<optvars, anvars, cvars, evars, tvars>>

SymNext == EnterScope \/ ExitScope \/ ExitOutermost \/ Declare

SymSpec == SymInit /\ [][SymNext]_vars

\* the names the flat map holds at the current scope level
FlatInnermost(a) ==
    {n \in DOMAIN a.symbols : a.symbols[n].scope_level = a.scope_level}

\* C10: declaration and lookup in the scoped symbol table: a declaration
\* fails exactly when the name is already declared in the innermost frame,
\* and a failed declaration leaves the table unchanged; a name declared only
\* in an outer frame can be declared again in an inner frame, lookup then
\* returns the inner symbol, and after the inner frame is exited lookup
\* returns the outer symbol again.  Stated of SymbolTable::declare/lookup and
\* of add_symbol/get_symbol_type, where a failed declaration is one that
\* collects "Variable already declared".
C10_DeclareAndLookup ==
    [][ /\ last'.op = "declare" =>
            /\ last'.ok <=> last'.name \notin DOMAIN table.scopes[Len(table.scopes)]
            /\ ~last'.ok => table' = table
            /\ last'.ok => /\ lookup(table', last'.name).some
                           /\ lookup(table', last'.name).v.ty = last'.ty
            /\ (flat'.errors = flat.errors) <=> last'.name \notin FlatInnermost(flat)
            /\ flat'.errors # flat.errors => flat'.symbols = flat.symbols
            /\ flat'.errors = flat.errors =>
                  get_symbol_type(last'.name, flat') = TypeOk(last'.ty)
        /\ last'.op = "exit_scope" =>
            \A n \in SymNames :
               lookup(table', n) = LookupFrom(table, n, Len(table.scopes) - 1)
      ]_vars

\* the frame stack is non-empty and the level is the number of frames less one
FramesWellFormed(t) ==
    /\ Len(t.scopes) >= 1
    /\ t.current_scope_level = Len(t.scopes) - 1

\* C29: symbol table frame invariant: after any sequence of enter_scope,
\* exit_scope and declare calls on a SymbolTable, the frame stack is
\* non-empty and current_scope_level equals the number of frames minus one;
\* exit_scope called when only the contract frame remains changes nothing,
\* so symbols declared in frame 0 stay resolvable forever.
C29_FrameInvariant ==
    [][ /\ FramesWellFormed(table)
        /\ FramesWellFormed(table')
        /\ last'.op = "exit_outermost" => table' = table
        /\ \A n \in DOMAIN table.scopes[1] :
              /\ n \in DOMAIN table'.scopes[1]
              /\ lookup(table', n).some
      ]_vars

\* exit_scope has been called on a table that holds a symbol in its only
\* frame, and the symbol resolves
C29_Witness ==
    /\ last.op = "exit_outermost"
    /\ Len(table.scopes) = 1
    /\ "a" \in DOMAIN table.scopes[1]
    /\ lookup(table, "a").some

\* the part of C10 that is about SymbolTable alone
SymbolTableDeclareAndLookup ==
    [][ /\ last'.op = "declare" =>
            /\ last'.ok <=> last'.name \notin DOMAIN table.scopes[Len(table.scopes)]
            /\ ~last'.ok => table' = table
            /\ last'.ok => /\ lookup(table', last'.name).some
                           /\ lookup(table', last'.name).v.ty = last'.ty
        /\ last'.op = "exit_scope" =>
            \A n \in SymNames :
               lookup(table', n) = LookupFrom(table, n, Len(table.scopes) - 1)
      ]_vars

(***************************************************************************)
(* Analysis of a contract by both analyzers.                               *)
(***************************************************************************)
AnState == << StateVariable("total", "U64", TRUE), StateVariable("flag", "Bool", TRUE) >>
AnEvents == {"E"}
AnParams == << Parameter("p", "U64", FALSE) >>

LetX == LetDecl("x", None, Number(1), TRUE)
LetY == LetDecl("y", None, Bool(TRUE), FALSE)
Use(n) == ExprStmt(Identifier(n))

\* the statements of a block
InnerStmts == {LetX, LetY, Use("x"), Use("y")}

\* statements without blocks: declarations, well-typed and ill-typed
\* assignments, uses of declared and never declared names, conditions
FlatStmts ==
    { LetX, LetY, LetDecl("x", Some("U64"), Bool(TRUE), TRUE),
      Assign("total", Bool(TRUE)), Assign("total", Number(1)), Assign("x", Number(2)),
      Assign("y", Bool(FALSE)), Assign("u", Number(1)), Assign("p", Number(1)),
      Use("x"), Use("y"), Use("u"), Use("p"),
      Return(Some(Identifier("x"))), Return(None),
      Require(Number(1), None), Require(Identifier("flag"), None),
      Emit("E", <<Identifier("y")>>), Emit("U", <<>>),
      ExprStmt(Binary("Add", Identifier("x"), Bool(TRUE))),
      ExprStmt(Call("msg_sender", <<>>)) }

BlockStmts ==
    {If(Identifier("flag"), <<b>>, None) : b \in InnerStmts}
    \cup {If(Identifier("flag"), <<b>>, Some(<<c>>)) : b \in InnerStmts, c \in InnerStmts}
    \cup {While(Identifier("flag"), <<b>>) : b \in InnerStmts}

AnStmts == FlatStmts \cup BlockStmts

\* semantic_tests.rs: test_semantic_scope_analysis
ScopeTestBody ==
    << LetDecl("x", None, Number(10), FALSE),
       If(Binary("Gt", Identifier("x"), Number(5)),
          << LetDecl("y", None, Number(20), FALSE),
             LetDecl("z", None, Binary("Add", Identifier("x"), Identifier("y")), FALSE) >>,
          None),
       LetDecl("a", None, Identifier("x"), FALSE) >>

AnProgram(functions) == ContractDecl(AnState, AnEvents, functions)
FunctionF(body) == FunctionDecl("f", AnParams, None, body)
FunctionG(body) == FunctionDecl("g", <<>>, None, body)

FunctionH(body) == FunctionDecl("h", AnParams, Some("U64"), body)

\* the statements of a function that returns a value: returns, branches
\* that return on both, one or no side, a loop that returns
PositiveP == Binary("Gt", Identifier("p"), Number(0))
ReturnP == Return(Some(Identifier("p")))
ReturnStmts ==
    { ReturnP, Return(Some(Number(0))), Use("p"), LetX,
      If(PositiveP, <<ReturnP>>, None),
      If(PositiveP, <<ReturnP>>, Some(<<Return(Some(Number(0)))>>)),
      If(PositiveP, <<Use("p")>>, Some(<<Return(Some(Number(0)))>>)),
      While(Identifier("flag"), <<ReturnP>>) }

\* semantic_tests.rs: test_semantic_function_call_validation, the callee
\* `add(a: u64, b: u64) -> u64 { return a + b; }` and a caller of it
FunctionAdd ==
    FunctionDecl("add", <<Parameter("a", "U64", FALSE), Parameter("b", "U64", FALSE)>>,
                 Some("U64"),
                 <<Return(Some(Binary("Add", Identifier("a"), Identifier("b"))))>>)
FunctionTest(body) == FunctionDecl("test", <<>>, None, body)
CallArgs ==
    UNION {[1 .. n -> {Number(10), Bool(TRUE), Identifier("u")}] : n \in 0 .. MaxArgs}
CallAdd(args) == LetDecl("result", None, Call("add", args), FALSE)

\* scalar types of the Type enum, and a contract that assigns a state
\* variable of one to a state variable of another
ScalarTypes == {"U8", "U16", "U64", "U128", "Bool", "Address", "String", "Bytes"}
TypedAssign(target_type, value_type) ==
    ContractDecl(<<StateVariable("s", target_type, TRUE),
                   StateVariable("v", value_type, TRUE)>>,
                 AnEvents, <<FunctionTest(<<Assign("s", Identifier("v"))>>)>>)

\* semantic_tests.rs: test_semantic_duplicate_function, and a contract
\* whose second function or second state variable is named n
DuplicateFunctionTest ==
    <<FunctionTest(<<LetDecl("a", None, Number(1), FALSE)>>),
      FunctionTest(<<LetDecl("b", None, Number(2), FALSE)>>)>>
SecondFunction(n) ==
    <<FunctionTest(<<Return(None)>>), FunctionDecl(n, <<>>, None, <<Return(None)>>)>>
SecondState(n, ty) == <<StateVariable("total", "U64", TRUE), StateVariable(n, ty, TRUE)>>

\* statements with a condition, boolean or not
Conditions == {Number(10), String("s"), Bool(TRUE), Identifier("flag"), Identifier("p")}
ConditionStmts ==
    {Require(c, None) : c \in Conditions}
    \cup {If(c, <<Use("p")>>, None) : c \in Conditions}
    \cup {While(c, <<Use("p")>>) : c \in Conditions}

AnStart(c) ==
    /\ program = c
    /\ sem_result = None
    /\ sa_result = None
    /\ OptIdle
    /\ SymIdle
    /\ CompileIdle
    /\ EmitIdle
    /\ TypeIdle

\* The contracts given to the analyzers: one function with every body of up
\* to MaxStmts statements, two functions of one statement each, a declaration
\* followed by a block and a use, the body of the scope test, and one
\* function with a return type.
AnInit ==
    \/ \E n \in 1 .. MaxStmts : \E b \in [1 .. n -> AnStmts] :
          AnStart(AnProgram(<<FunctionF(SeqOf(b, n))>>))
    \/ \E s \in AnStmts, t \in AnStmts :
          AnStart(AnProgram(<<FunctionF(<<s>>), FunctionG(<<t>>)>>))
    \/ \E d \in {LetX, LetY}, b \in BlockStmts, u \in {Use("x"), Use("y")} :
          AnStart(AnProgram(<<FunctionF(<<d, b, u>>)>>))
    \/ AnStart(AnProgram(<<FunctionF(ScopeTestBody)>>))
    \/ \E n \in 1 .. MaxStmts : \E b \in [1 .. n -> ReturnStmts] :
          AnStart(AnProgram(<<FunctionH(SeqOf(b, n))>>))
    \/ \E t1 \in ScalarTypes, t2 \in ScalarTypes : AnStart(TypedAssign(t1, t2))
    \/ AnStart(AnProgram(DuplicateFunctionTest))
    \/ \E n \in {"test", "g"} : AnStart(AnProgram(SecondFunction(n)))
    \/ \E n \in {"total", "flag"}, ty \in {"U64", "Bool"} :
          AnStart(ContractDecl(SecondState(n, ty), AnEvents, <<FunctionTest(<<Return(None)>>)>>))
    \/ \E s \in ConditionStmts, t \in {<<>>, <<Use("p")>>, <<Use("u")>>} :
          AnStart(AnProgram(<<FunctionF(<<s>> \o t)>>))
    \/ \E args \in CallArgs :
          AnStart(AnProgram(<<FunctionAdd, FunctionTest(<<CallAdd(SeqOf(args, Len(args)))>>)>>))

RECURSIVE HasWhile(_)
\* semantic.rs matches on the statements of the parser's AST, which has no
\* While
HasWhile(ss) ==
    \E i \in DOMAIN ss :
       \/ ss[i].k = "While"
       \/ ss[i].k = "If" /\ (HasWhile(ss[i].then_block)
                             \/ (ss[i].else_block.some /\ HasWhile(ss[i].else_block.v)))

\* semantic::SemanticAnalyzer::new().analyze(&contract)
SemAnalyze ==
    /\ program # <<>>
    /\ ~sem_result.some
    /\ \A i \in DOMAIN program.functions : ~HasWhile(program.functions[i].body)
    /\ sem_result' = Some(sem_analyze(program))
    /\ UNCHANGED <<program, sa_result, optvars, symvars, cvars, evars, tvars>>

\* semantic_analyzer::SemanticAnalyzer::new(name).analyze(&contract)
SaAnalyze ==
    /\ program # <<>>
    /\ ~sa_result.some
    /\ sa_result' = Some(sa_analyze(program))
    /\ UNCHANGED <<program, sem_result, optvars, symvars, cvars, evars, tvars>>

AnNext == SemAnalyze \/ SaAnalyze

AnSpec == AnInit /\ [][AnNext]_vars

(***************************************************************************)
(* Claims about the semantic analyzers.                                    *)
(***************************************************************************)
\* the contract with its i-th function only
Alone(c, i) == [c EXCEPT !.functions = <<c.functions[i]>>]

Reports(r, m) == \E i \in DOMAIN r.reported : r.reported[i] = m

\* r fails and reports every message that q reports
ReportsAllOf(r, q) ==
    /\ ~r.ok
    /\ \A i \in DOMAIN q.reported : Reports(r, q.reported[i])

\* C8: the analyzer collects errors and never stops at the first one: when
\* each of two functions violates a rule on its own (the analysis of the
\* contract with that function alone fails), the analysis of the contract
\* with both fails and its reported errors contain the violations of both.
C8_AllViolationsReported ==
    Len(program.functions) = 2 =>
        /\ sem_result.some =>
             ((~sem_analyze(Alone(program, 1)).ok /\ ~sem_analyze(Alone(program, 2)).ok) =>
                 /\ ReportsAllOf(sem_result.v, sem_analyze(Alone(program, 1)))
                 /\ ReportsAllOf(sem_result.v, sem_analyze(Alone(program, 2))))
        /\ sa_result.some =>
             ((~sa_analyze(Alone(program, 1)).ok /\ ~sa_analyze(Alone(program, 2)).ok) =>
                 /\ ReportsAllOf(sa_result.v, sa_analyze(Alone(program, 1)))
                 /\ ReportsAllOf(sa_result.v, sa_analyze(Alone(program, 2))))

\* the messages that report the name n as undefined
UndefinedReports(n) ==
    {<<"Unknown symbol", n>>, <<"Undefined identifier", n>>, <<"Undefined variable", n>>}

ReportsUndefined(r, n) == \E m \in UndefinedReports(n) : Reports(r, m)

Atomic(e) == e.k \in {"Number", "Bool", "String", "Identifier"}

\* the names a statement itself uses, in the order they are resolved, when
\* its expressions are atomic
StmtNames(s) ==
    LET NamesOf(e) == IF e.k = "Identifier" THEN <<e.name>> ELSE <<>>
    IN CASE s.k = "Let" -> NamesOf(s.value)
         [] s.k = "Assign" -> <<s.target>> \o NamesOf(s.value)
         [] s.k \in {"If", "While", "Require"} -> NamesOf(s.condition)
         [] s.k = "Return" -> IF s.value.some THEN NamesOf(s.value.v) ELSE <<>>
         [] s.k = "Expression" -> NamesOf(s.expr)
         [] s.k = "Emit" ->
               IF s.args = <<>> THEN <<>> ELSE NamesOf(s.args[1])

\* every expression is a literal or a name, so that nothing but the
\* resolution of names can stop the analysis
RECURSIVE AtomicStmts(_, _)
AtomicStmts(ss, events) ==
    \A i \in DOMAIN ss :
       LET s == ss[i]
       IN CASE s.k \in {"Let", "Assign"} -> Atomic(s.value)
            [] s.k = "If" ->
                  /\ Atomic(s.condition)
                  /\ AtomicStmts(s.then_block, events)
                  /\ s.else_block.some => AtomicStmts(s.else_block.v, events)
            [] s.k = "While" -> Atomic(s.condition) /\ AtomicStmts(s.body, events)
            [] s.k = "Require" -> Atomic(s.condition)
            [] s.k = "Return" -> s.value.some => Atomic(s.value.v)
            [] s.k = "Expression" -> Atomic(s.expr)
            [] s.k = "Emit" ->
                  /\ s.event \in events
                  /\ Len(s.args) <= 1
                  /\ \A j \in DOMAIN s.args : Atomic(s.args[j])

\* no Let declares a name that its own frame already holds
RECURSIVE NoRedeclaration(_, _)
NoRedeclaration(ss, frame) ==
    IF ss = <<>> THEN TRUE
    ELSE LET s == Head(ss)
         IN CASE s.k = "Let" ->
                    s.name \notin frame /\ NoRedeclaration(Tail(ss), frame \cup {s.name})
              [] s.k = "If" ->
                    /\ NoRedeclaration(s.then_block, {})
                    /\ s.else_block.some => NoRedeclaration(s.else_block.v, {})
                    /\ NoRedeclaration(Tail(ss), frame)
              [] s.k = "While" ->
                    NoRedeclaration(s.body, {}) /\ NoRedeclaration(Tail(ss), frame)
              [] OTHER -> NoRedeclaration(Tail(ss), frame)

\* lexical scoping: the first use, in program order, of a name that no
\* enclosing scope has declared before it; a block's declarations end with
\* the block
RECURSIVE FirstUnresolved(_, _)
FirstUnresolved(ss, bound) ==
    IF ss = <<>> THEN None
    ELSE LET s == Head(ss)
             used == StmtNames(s)
             bad == {i \in DOMAIN used : used[i] \notin bound}
             then_ == IF s.k = "If" THEN FirstUnresolved(s.then_block, bound)
                      ELSE IF s.k = "While" THEN FirstUnresolved(s.body, bound)
                      ELSE None
             else_ == IF s.k = "If" /\ s.else_block.some
                      THEN FirstUnresolved(s.else_block.v, bound)
                      ELSE None
         IN IF bad # {} THEN Some(used[CHOOSE i \in bad : \A j \in bad : i <= j])
            ELSE IF then_.some THEN then_
            ELSE IF else_.some THEN else_
            ELSE FirstUnresolved(Tail(ss),
                                 IF s.k = "Let" THEN bound \cup {s.name} ELSE bound)

NamesIn(decls) == {decls[i].name : i \in DOMAIN decls}

RECURSIVE FirstUnresolvedIn(_, _)
\* over the functions in order, each under the state variables and its own
\* parameters
FirstUnresolvedIn(functions, state) ==
    IF functions = <<>> THEN None
    ELSE LET u == FirstUnresolved(Head(functions).body,
                                  NamesIn(state) \cup NamesIn(Head(functions).params))
         IN IF u.some THEN u ELSE FirstUnresolvedIn(Tail(functions), state)

ScopeOnly(c) ==
    \A i \in DOMAIN c.functions :
       /\ AtomicStmts(c.functions[i].body, c.events)
       /\ NoRedeclaration(c.functions[i].body, NamesIn(c.functions[i].params))

AnNames == {"x", "y", "z", "a", "u", "p", "total", "flag"}

\* the result r agrees with lexical scoping on the contract c
Hygienic(r, c) ==
    IF FirstUnresolvedIn(c.functions, c.state).some
    THEN ~r.ok /\ ReportsUndefined(r, FirstUnresolvedIn(c.functions, c.state).v)
    ELSE \A n \in AnNames : ~ReportsUndefined(r, n)

Mutability(decls) == [n \in NamesIn(decls) |->
                         \E i \in DOMAIN decls : decls[i].name = n /\ decls[i].is_mutable]

\* m1 overridden by m2
Shadowed(m1, m2) ==
    [n \in DOMAIN m1 \cup DOMAIN m2 |-> IF n \in DOMAIN m2 THEN m2[n] ELSE m1[n]]

RECURSIVE ImmutableAssign(_, _)
\* lexical scoping again: some Assign of ss has a target that resolves to a
\* symbol declared immutable (env maps the visible names to their mutability)
ImmutableAssign(ss, env) ==
    IF ss = <<>> THEN FALSE
    ELSE LET s == Head(ss)
         IN \/ s.k = "Assign" /\ s.target \in DOMAIN env /\ ~env[s.target]
            \/ s.k = "If" /\ ImmutableAssign(s.then_block, env)
            \/ s.k = "If" /\ s.else_block.some /\ ImmutableAssign(s.else_block.v, env)
            \/ s.k = "While" /\ ImmutableAssign(s.body, env)
            \/ ImmutableAssign(Tail(ss),
                               IF s.k = "Let"
                               THEN Shadowed(env, [n \in {s.name} |-> s.is_mutable])
                               ELSE env)

AssignsImmutable(c) ==
    \E i \in DOMAIN c.functions :
       ImmutableAssign(c.functions[i].body,
                       Shadowed(Mutability(c.state), Mutability(c.functions[i].params)))

ReportsImmutable(r) ==
    \E n \in AnNames : Reports(r, <<"Cannot assign to immutable variable", n>>)

\* C11: mutability: every Assign whose lvalue root resolves to a symbol that
\* is not mutable, in particular an immutable function parameter, makes
\* analyze fail with an immutable-assignment error; no contract containing
\* such an assignment is accepted.
C11_ImmutableAssignRejected ==
    (program # <<>> /\ AssignsImmutable(program)) =>
        /\ sem_result.some => (~sem_result.v.ok /\ ReportsImmutable(sem_result.v))
        /\ sa_result.some => (~sa_result.v.ok /\ ReportsImmutable(sa_result.v))

\* the half of C11 that semantic_analyzer.rs keeps: it accepts no contract
\* with such an assignment
SaRejectsImmutableAssign ==
    (program # <<>> /\ AssignsImmutable(program) /\ sa_result.some) => ~sa_result.v.ok

RECURSIVE AlwaysReturns(_)
\* every path through the block ends in a Return: the block holds a Return,
\* or an If whose then-block and else-block both always return
AlwaysReturns(ss) ==
    \E i \in DOMAIN ss :
       \/ ss[i].k = "Return"
       \/ /\ ss[i].k = "If"
          /\ ss[i].else_block.some
          /\ AlwaysReturns(ss[i].then_block)
          /\ AlwaysReturns(ss[i].else_block.v)

ReportsMissingReturn(r, function) ==
    Reports(r, <<"Function must return a value on all paths", function.name,
                 function.return_type.v>>)

ReturnPathsChecked(r, c) ==
    \A i \in DOMAIN c.functions :
       (c.functions[i].return_type.some /\ ~AlwaysReturns(c.functions[i].body)) =>
           (~r.ok /\ ReportsMissingReturn(r, c.functions[i]))

\* C12: return-path check: a function with a non-void return type is
\* accepted only if every path through its body ends in a Return (a Return
\* in the block, or an If whose two blocks both always return; loops and an
\* If without else never do); `fn h(p: u64) -> u64 { if p > 0 { return p; } }`
\* is rejected with a missing-return error.
C12_ReturnPaths ==
    program # <<>> =>
        /\ sem_result.some => ReturnPathsChecked(sem_result.v, program)
        /\ sa_result.some => ReturnPathsChecked(sa_result.v, program)

\* the part of C12 that semantic_analyzer.rs keeps: it accepts only
\* functions that always return, rejects the example with the missing-return
\* message and accepts it once `else { return 0; }` is added
SaReturnPaths ==
    (program # <<>> /\ sa_result.some) =>
        /\ sa_result.v.ok =>
              \A i \in DOMAIN program.functions :
                 program.functions[i].return_type.some
                     => AlwaysReturns(program.functions[i].body)
        /\ program = AnProgram(<<FunctionH(<<If(PositiveP, <<ReturnP>>, None)>>)>>)
              => ReportsMissingReturn(sa_result.v, program.functions[1])
        /\ program = AnProgram(<<FunctionH(<<If(PositiveP, <<ReturnP>>,
                                               Some(<<Return(Some(Number(0)))>>))>>)>>)
              => sa_result.v.ok

\* the call `add(args)` in the function test of the contract
CallsAdd(c, args) == c = AnProgram(<<FunctionAdd, FunctionTest(<<CallAdd(args)>>)>>)

ReportsArity(r, func, expected, got) ==
    \E i \in DOMAIN r.reported :
       /\ Len(r.reported[i]) = 4
       /\ r.reported[i] = <<"Function expects arguments", func, expected, got>>

ArityChecked(r, c) ==
    \A args \in CallArgs :
       CallsAdd(c, args) =>
          IF Len(args) # 2
          THEN ~r.ok /\ ReportsArity(r, "add", 2, Len(args))
          ELSE /\ \A n \in 0 .. MaxArgs : ~ReportsArity(r, "add", 2, n)
               /\ args = <<Number(10), Number(10)>> => r.ok

\* C13: arity check: a call f(a1..an) to a function declared in the contract
\* with m parameters, n # m, makes analyze fail with an arity-mismatch error
\* that names m and n; a call with n = m and matching argument types does
\* not produce this error.
C13_ArityChecked ==
    program # <<>> =>
        /\ sem_result.some => ArityChecked(sem_result.v, program)
        /\ sa_result.some => ArityChecked(sa_result.v, program)

\* the part of C13 that semantic.rs keeps
SemArityChecked ==
    (program # <<>> /\ sem_result.some) => ArityChecked(sem_result.v, program)

\* a type-mismatch error that reports the two types
ReportsMismatch(r, target_type, value_type) ==
    \/ Reports(r, <<"Type mismatch: cannot assign", value_type, target_type>>)
    \/ Reports(r, <<"Cannot unify", target_type, value_type>>)
    \/ Reports(r, <<"Cannot unify", value_type, target_type>>)

AssignTyped(r, c) ==
    \A t1 \in ScalarTypes, t2 \in ScalarTypes :
       c = TypedAssign(t1, t2) =>
          IF t1 # t2 THEN ~r.ok /\ ReportsMismatch(r, t1, t2)
          ELSE r.ok

\* C14: assignment typing: an Assign whose value has an inferred type
\* different from the declared type of its target makes analyze fail with a
\* type-mismatch error that reports both types; an Assign whose value type
\* equals the target type never produces a type-mismatch error, for every
\* type of the Type model.
C14_AssignTyped ==
    program # <<>> =>
        /\ sem_result.some => AssignTyped(sem_result.v, program)
        /\ sa_result.some => AssignTyped(sa_result.v, program)

\* the part of C14 that both analyzers keep: an assignment between
\* different types is rejected with both types reported
MismatchRejected ==
    program # <<>> =>
        \A t1 \in ScalarTypes, t2 \in ScalarTypes :
           (program = TypedAssign(t1, t2) /\ t1 # t2) =>
              /\ sem_result.some => (~sem_result.v.ok /\ ReportsMismatch(sem_result.v, t1, t2))
              /\ sa_result.some => (~sa_result.v.ok /\ ReportsMismatch(sa_result.v, t1, t2))

DistinctNames(decls) ==
    \A i \in DOMAIN decls, j \in DOMAIN decls : decls[i].name = decls[j].name => i = j

ReportsDuplicate(r, decls) ==
    \E i \in DOMAIN decls :
       \/ Reports(r, <<"Duplicate function", decls[i].name>>)
       \/ Reports(r, <<"Duplicate state variable", decls[i].name>>)
       \/ Reports(r, <<"Symbol already declared in current scope", decls[i].name>>)

UniqueNames(r, c) ==
    /\ ~DistinctNames(c.functions) => (~r.ok /\ ReportsDuplicate(r, c.functions))
    /\ ~DistinctNames(c.state) => (~r.ok /\ ReportsDuplicate(r, c.state))

\* C15: unique names: analyze fails with a duplicate-declaration error
\* whenever a contract declares two functions with the same name or two state
\* variables with the same name, so that every contract that analyze accepts
\* has pairwise-distinct names within each kind.
C15_UniqueNames ==
    program # <<>> =>
        /\ sem_result.some => UniqueNames(sem_result.v, program)
        /\ sa_result.some => UniqueNames(sa_result.v, program)

\* the part of C15 that holds: semantic.rs rejects duplicate functions and
\* state variables, semantic_analyzer.rs duplicate state variables
DuplicatesRejected ==
    program # <<>> =>
        /\ sem_result.some => UniqueNames(sem_result.v, program)
        /\ sa_result.some =>
              (~DistinctNames(program.state) =>
                  (~sa_result.v.ok /\ ReportsDuplicate(sa_result.v, program.state)))

RECURSIVE IdentifiersOf(_)
\* the names of the Identifier expressions of an expression
IdentifiersOf(e) ==
    CASE e.k = "Identifier" -> {e.name}
      [] e.k = "Binary" -> IdentifiersOf(e.left) \cup IdentifiersOf(e.right)
      [] e.k = "Unary" -> IdentifiersOf(e.expr)
      [] e.k = "Call" -> UNION {IdentifiersOf(e.args[i]) : i \in DOMAIN e.args}
      [] e.k = "Index" -> {e.array} \cup IdentifiersOf(e.index)
      [] OTHER -> {}

\* the Assign target and the Identifier expressions of a statement itself
StmtIdentifiers(s) ==
    CASE s.k = "Let" -> IdentifiersOf(s.value)
      [] s.k = "Assign" -> {s.target} \cup IdentifiersOf(s.value)
      [] s.k \in {"If", "While", "Require"} -> IdentifiersOf(s.condition)
      [] s.k = "Return" -> IF s.value.some THEN IdentifiersOf(s.value.v) ELSE {}
      [] s.k = "Emit" -> UNION {IdentifiersOf(s.args[j]) : j \in DOMAIN s.args}
      [] s.k = "Expression" -> IdentifiersOf(s.expr)

RECURSIVE UnresolvedNames(_, _)
\* lexical scoping: the names used where no parameter, local of an enclosing
\* open scope or state variable of that name is declared
UnresolvedNames(ss, bound) ==
    IF ss = <<>> THEN {}
    ELSE LET s == Head(ss)
         IN (StmtIdentifiers(s) \ bound)
            \cup (IF s.k = "If" THEN UnresolvedNames(s.then_block, bound) ELSE {})
            \cup (IF s.k = "If" /\ s.else_block.some
                  THEN UnresolvedNames(s.else_block.v, bound) ELSE {})
            \cup (IF s.k = "While" THEN UnresolvedNames(s.body, bound) ELSE {})
            \cup UnresolvedNames(Tail(ss),
                                 IF s.k = "Let" THEN bound \cup {s.name} ELSE bound)

UndefinedReported(r, c) ==
    \A i \in DOMAIN c.functions :
       \A n \in UnresolvedNames(c.functions[i].body,
                                NamesIn(c.state) \cup NamesIn(c.functions[i].params)) :
          ~r.ok /\ ReportsUndefined(r, n)

\* C16: undefined identifier: any Assign target or Identifier expression
\* whose name is not a parameter, a local in an enclosing open scope or a
\* state variable makes analyze fail with an undefined-identifier error
\* naming that identifier.
C16_UndefinedReported ==
    program # <<>> =>
        /\ sem_result.some => UndefinedReported(sem_result.v, program)
        /\ sa_result.some => UndefinedReported(sa_result.v, program)

\* the part of C16 that both analyzers keep: `u = 1;` with no u is rejected
\* with the error naming u (semantic_tests.rs: test_semantic_undefined_variable)
UndefinedTargetReported ==
    program = AnProgram(<<FunctionF(<<Assign("u", Number(1))>>)>>) =>
        /\ sem_result.some => (~sem_result.v.ok /\ ReportsUndefined(sem_result.v, "u"))
        /\ sa_result.some => (~sa_result.v.ok /\ ReportsUndefined(sa_result.v, "u"))

RECURSIVE LiteralCondition(_)
\* some If, While or Require of the block has a Number or String literal,
\* which is not of type Bool, as its condition
LiteralCondition(ss) ==
    \E i \in DOMAIN ss :
       \/ ss[i].k \in {"If", "While", "Require"} /\ ss[i].condition.k \in {"Number", "String"}
       \/ ss[i].k = "If" /\ LiteralCondition(ss[i].then_block)
       \/ ss[i].k = "If" /\ ss[i].else_block.some /\ LiteralCondition(ss[i].else_block.v)
       \/ ss[i].k = "While" /\ LiteralCondition(ss[i].body)

ReportsNonBoolean(r) ==
    \/ Reports(r, <<"If condition must be boolean">>)
    \/ Reports(r, <<"Require condition must be boolean">>)
    \/ \E ty \in {"U64", "String"} : Reports(r, <<"Cannot unify", ty, "Bool">>)

NonBooleanCondition(c) ==
    \E i \in DOMAIN c.functions : LiteralCondition(c.functions[i].body)

\* C17: boolean conditions: the condition of every If, While and Require
\* must have type Bool; a contract containing such a statement with a
\* condition of another type (for example `require(10, ...)`) is rejected by
\* analyze with a non-boolean-condition error.
C17_BooleanConditions ==
    (program # <<>> /\ NonBooleanCondition(program)) =>
        /\ sem_result.some => (~sem_result.v.ok /\ ReportsNonBoolean(sem_result.v))
        /\ sa_result.some => (~sa_result.v.ok /\ ReportsNonBoolean(sa_result.v))

\* the part of C17 that both analyzers keep: no such contract is accepted,
\* and with the condition statement alone the error is the non-boolean one
NonBooleanRejected ==
    (program # <<>> /\ NonBooleanCondition(program)) =>
        /\ sem_result.some => ~sem_result.v.ok
        /\ sa_result.some => ~sa_result.v.ok
        /\ \A s \in ConditionStmts :
              program = AnProgram(<<FunctionF(<<s>>)>>) =>
                 /\ sem_result.some => ReportsNonBoolean(sem_result.v)
                 /\ sa_result.some => ReportsNonBoolean(sa_result.v)

(***************************************************************************)
(* The compile and validate commands (main.rs).  An invocation is the      *)
(* record [command, input, target, faults]: the subcommand, what the input *)
(* file holds, the --target string (compile only), and the file operations *)
(* that fail in this run.  A file operation is the pair of the std::fs     *)
(* function and its path.                                                  *)
(***************************************************************************)
Backends == {"solana", "aptos", "sui"}
Targets == Backends \cup {"all", "evm"}
Inputs == {"valid", "parse error", "semantic error"}

OutputFile(b) ==
    IF b = "solana" THEN "solana/lib.rs"
    ELSE IF b = "aptos" THEN "aptos/token.move"
    ELSE "sui/token.move"

ReadOp == <<"read_to_string", "input">>
OutputDirOp == <<"create_dir_all", "output">>
BackendDirOp(b) == <<"create_dir_all", b>>
WriteOp(b) == <<"write", OutputFile(b)>>

FileOps ==
    {ReadOp, OutputDirOp} \cup {BackendDirOp(b) : b \in Backends}
    \cup {WriteOp(b) : b \in Backends}

Faults == {f \in SUBSET FileOps : Cardinality(f) <= MaxFaults}

Fails(op) == op \in invocation.faults

\* enum Commands: Compile { input, target, output } and Validate { input }
CompileCommands == [command : {"compile"}, input : Inputs, target : Targets, faults : Faults]
ValidateCommands == [command : {"validate"}, input : Inputs, faults : SUBSET {ReadOp}]

\* main: match cli.command
CompileInit ==
    /\ invocation \in CompileCommands \cup ValidateCommands
    /\ pc = IF invocation.command = "compile" THEN "read_to_string" ELSE "validate"
    /\ history = <<>>
    /\ outcome = None
    /\ OptIdle
    /\ AnIdle
    /\ SymIdle
    /\ EmitIdle
    /\ TypeIdle

\* a file operation fails and `?` returns its Err from compile and from
\* main, which ends the process with exit code 1; done are the operations
\* performed before it
Returned(op, done) ==
    /\ outcome' = Some([ok |-> FALSE, code |-> 1, failed |-> op])
    /\ pc' = "returned"
    /\ history' = done

\* the operation succeeds and compile goes on with the statement next
Performed(ops, next) ==
    /\ history' = history \o ops
    /\ pc' = next
    /\ UNCHANGED outcome

\* let dsl_content = fs::read_to_string(&input)?;
ReadInput ==
    /\ pc = "read_to_string"
    /\ IF Fails(ReadOp) THEN Returned(ReadOp, history)
       ELSE Performed(<<ReadOp>>, "create_dir_all")
    /\ UNCHANGED <<invocation, optvars, anvars, symvars, evars, tvars>>

\* fs::create_dir_all(&output)?;
CreateOutputDir ==
    /\ pc = "create_dir_all"
    /\ IF Fails(OutputDirOp) THEN Returned(OutputDirOp, history)
       ELSE Performed(<<OutputDirOp>>, "solana")
    /\ UNCHANGED <<invocation, optvars, anvars, symvars, evars, tvars>>

\* match target.as_str() { b | "all" => { create_dir_all(dir)?; write(file)?; } _ => {} }
Generate(b, next) ==
    /\ pc = b
    /\ IF invocation.target \notin {b, "all"} THEN Performed(<<>>, next)
       ELSE IF Fails(BackendDirOp(b)) THEN Returned(BackendDirOp(b), history)
       ELSE IF Fails(WriteOp(b)) THEN Returned(WriteOp(b), Append(history, BackendDirOp(b)))
       ELSE Performed(<<BackendDirOp(b), WriteOp(b)>>, next)
    /\ UNCHANGED <<invocation, optvars, anvars, symvars, evars, tvars>>

GenerateSolana == Generate("solana", "aptos")
GenerateAptos == Generate("aptos", "sui")
GenerateSui == Generate("sui", "complete")

\* println!("Compilation complete!"); Ok(()) and main's Ok(()): exit code 0
Complete ==
    /\ pc = "complete"
    /\ outcome' = Some([ok |-> TRUE, code |-> 0, failed |-> <<>>])
    /\ pc' = "returned"
    /\ UNCHANGED <<invocation, history, optvars, anvars, symvars, evars, tvars>>

\* validate: let content = fs::read_to_string(&input)?; the content is not
\* used, "DSL syntax is valid!" is printed and Ok(()) returned
Validate ==
    /\ pc = "validate"
    /\ IF Fails(ReadOp) THEN Returned(ReadOp, history)
       ELSE /\ outcome' = Some([ok |-> TRUE, code |-> 0, failed |-> <<>>])
            /\ history' = Append(history, ReadOp)
            /\ pc' = "returned"
    /\ UNCHANGED <<invocation, optvars, anvars, symvars, evars, tvars>>

CompileNext ==
    \/ Validate
    \/ ReadInput
    \/ CreateOutputDir
    \/ GenerateSolana
    \/ GenerateAptos
    \/ GenerateSui
    \/ Complete

CompileSpec == CompileInit /\ [][CompileNext]_vars

(***************************************************************************)
(* Claims about the compile command.                                       *)
(***************************************************************************)
\* the output files written so far
Written == {history[i][2] : i \in {j \in DOMAIN history : history[j][1] = "write"}}

BackendFails(b) == Fails(BackendDirOp(b)) \/ Fails(WriteOp(b))

\* a compile command has returned
Compiled == outcome.some /\ invocation.command = "compile"

\* C18: backend isolation in the dispatcher: when compile runs with target
\* `all` and producing or writing the output of one target fails, the
\* failure is reported and the remaining selected targets are still
\* generated and written.
C18_BackendIsolation ==
    (Compiled /\ invocation.target = "all" /\ ~Fails(ReadOp) /\ ~Fails(OutputDirOp)) =>
        /\ (\E b \in Backends : BackendFails(b)) => ~outcome.v.ok
        /\ \A b \in Backends : ~BackendFails(b) => OutputFile(b) \in Written

\* C19: target selection: compile with target `solana`, `aptos` or `sui`
\* writes only that target's subdirectory, target `all` writes all three,
\* and any other target string ends with an unknown-target error (exit
\* code 4) instead of a success result, without writing any target file.
C19_TargetSelection ==
    Compiled =>
        IF invocation.target \in Backends
        THEN /\ Written \subseteq {OutputFile(invocation.target)}
             /\ outcome.v.ok => Written = {OutputFile(invocation.target)}
        ELSE IF invocation.target = "all"
        THEN outcome.v.ok => Written = {OutputFile(b) : b \in Backends}
        ELSE /\ Written = {}
             /\ invocation.faults = {} => (~outcome.v.ok /\ outcome.v.code = 4)

\* the part of C19 that holds: what each target string writes
TargetsWriteTheirOwn ==
    Compiled =>
        IF invocation.target \in Backends
        THEN /\ Written \subseteq {OutputFile(invocation.target)}
             /\ outcome.v.ok => Written = {OutputFile(invocation.target)}
        ELSE IF invocation.target = "all"
        THEN outcome.v.ok => Written = {OutputFile(b) : b \in Backends}
        ELSE Written = {}

\* C20: stage ordering of compile: the stages run in the order read input,
\* parse, semantic analysis, optimize, emit; a target output file is written
\* only after parsing and semantic analysis of the input have both
\* succeeded, so an input with a parse error or a semantic error leaves no
\* output file written by that invocation.
C20_StageOrdering ==
    Written # {} => (invocation.input = "valid" /\ history[1] = ReadOp)

\* the part of C20 that holds: every output file is written after the input
\* was read and the output directory created
ReadBeforeWrite ==
    Written # {} => (history[1] = ReadOp /\ history[2] = OutputDirOp)

(***************************************************************************)
(* Claims about the validate command.                                      *)
(***************************************************************************)
Validated == outcome.some /\ invocation.command = "validate"

\* C21: the validate command reports success (exit code 0) only for an
\* input that both parses and passes semantic analysis; for an input with a
\* parse error or a semantic error it ends with a non-zero error result.
C21_ValidateRejectsInvalid ==
    Validated =>
        /\ outcome.v.code = 0 => invocation.input = "valid"
        /\ invocation.input # "valid" => (~outcome.v.ok /\ outcome.v.code # 0)

\* what validate does decide on: the result is an error exactly when the
\* input file cannot be read
ValidateOnlyReads ==
    Validated => (outcome.v.ok <=> ~Fails(ReadOp))

(***************************************************************************)
(* The code generators (codegen/move_gen.rs, codegen/solana.rs).  A Type   *)
(* is a record tagged by its variant with its component types as fields.   *)
(* A text is the sequence of the pieces it is put together from (the       *)
(* arguments of push_str, the literal parts and the arguments of format!); *)
(* the String is their concatenation.                                      *)
(***************************************************************************)
Visibility == {"Public", "Private", "Internal", "External"}

\* lib.rs Function and Contract with the fields the generators read
SourceFunction(visibility, name, params, return_type, body) ==
    [visibility |-> visibility, name |-> name, params |-> params,
     return_type |-> return_type, body |-> body]
SourceContract(name, state, functions) ==
    [name |-> name, state |-> state, functions |-> functions]

\* str::to_lowercase and capitalize (solana.rs) on the names of the inputs
to_lowercase(s) ==
    CASE s = "Token" -> "token"
      [] s = "VAULT" -> "vault"
      [] OTHER -> s
capitalize(s) ==
    CASE s = "transfer" -> "Transfer"
      [] s = "mint" -> "Mint"
      [] s = "get" -> "Get"
      [] OTHER -> s

RECURSIVE Join(_, _)
\* Vec<String>::join(sep)
Join(texts, sep) ==
    IF texts = <<>> THEN <<>>
    ELSE IF Len(texts) = 1 THEN texts[1]
    ELSE texts[1] \o <<sep>> \o Join(Tail(texts), sep)

\* SolanaCodeGenerator::type_to_rust (codegen/solana.rs)
RECURSIVE type_to_rust(_)
type_to_rust(ty) ==
    CASE ty.k = "U8" -> <<"u8">>
      [] ty.k = "U16" -> <<"u16">>
      [] ty.k = "U32" -> <<"u32">>
      [] ty.k = "U64" -> <<"u64">>
      [] ty.k = "U128" -> <<"u128">>
      [] ty.k = "U256" -> <<"u256">>
      [] ty.k = "I8" -> <<"i8">>
      [] ty.k = "I16" -> <<"i16">>
      [] ty.k = "I32" -> <<"i32">>
      [] ty.k = "I64" -> <<"i64">>
      [] ty.k = "I128" -> <<"i128">>
      [] ty.k = "Bool" -> <<"bool">>
      [] ty.k = "Address" -> <<"Pubkey">>
      [] ty.k = "String" -> <<"String">>
      [] ty.k = "Bytes" -> <<"Vec<u8>">>
      [] ty.k = "Map" ->
           <<"HashMap<">> \o type_to_rust(ty.key) \o <<", ">> \o type_to_rust(ty.value) \o <<">">>
      [] ty.k = "Vec" -> <<"Vec<">> \o type_to_rust(ty.t) \o <<">">>
      [] ty.k = "Array" -> <<"[">> \o type_to_rust(ty.t) \o <<"; ", ToString(ty.size), "]">>
      [] ty.k = "Tuple" ->
           <<"(">> \o Join([i \in DOMAIN ty.types |-> type_to_rust(ty.types[i])], ", ")
           \o <<")">>
      [] ty.k = "Struct" -> <<ty.name>>
      [] ty.k = "Option" -> <<"Option<">> \o type_to_rust(ty.t) \o <<">">>
      [] ty.k = "Result" ->
           <<"Result<">> \o type_to_rust(ty.ok) \o <<", ">> \o type_to_rust(ty.err) \o <<">">>

RECURSIVE type_to_move(_)
\* mutant: the signed types keep their names, as in type_to_rust
type_to_move_AsRust(ty) == type_to_rust(ty)

\* MoveCodeGenerator::type_to_move
type_to_move(ty) ==
    CASE ty.k = "U8" -> <<"u8">>
      [] ty.k = "U16" -> <<"u16">>
      [] ty.k = "U32" -> <<"u32">>
      [] ty.k = "U64" -> <<"u64">>
      [] ty.k = "U128" -> <<"u128">>
      [] ty.k = "U256" -> <<"u256">>
      [] ty.k = "I8" -> <<"u8">>
      [] ty.k = "I16" -> <<"u16">>
      [] ty.k = "I32" -> <<"u32">>
      [] ty.k = "I64" -> <<"u64">>
      [] ty.k = "I128" -> <<"u128">>
      [] ty.k = "Bool" -> <<"bool">>
      [] ty.k = "Address" -> <<"address">>
      [] ty.k = "String" -> <<"vector<u8>">>
      [] ty.k = "Bytes" -> <<"vector<u8>">>
      [] ty.k = "Map" ->
           <<"aptos_std::simple_map::SimpleMap<">> \o type_to_move(ty.key) \o <<", ">>
           \o type_to_move(ty.value) \o <<">">>
      [] ty.k = "Vec" -> <<"vector<">> \o type_to_move(ty.t) \o <<">">>
      [] ty.k = "Array" -> <<"vector<">> \o type_to_move(ty.t) \o <<">">>
      [] ty.k = "Tuple" ->
           <<"(">> \o Join([i \in DOMAIN ty.types |-> type_to_move(ty.types[i])], ", ")
           \o <<")">>
      [] ty.k = "Struct" -> <<ty.name>>
      [] ty.k = "Option" -> <<"Option<">> \o type_to_move(ty.t) \o <<">">>
      [] ty.k = "Result" ->
           <<"Result<">> \o type_to_move(ty.ok) \o <<", ">> \o type_to_move(ty.err) \o <<">">>

binary_op_to_move(op) ==
    CASE op = "Add" -> "+" [] op = "Sub" -> "-" [] op = "Mul" -> "*"
      [] op = "Div" -> "/" [] op = "Mod" -> "%" [] op = "Pow" -> "^"
      [] op = "Eq" -> "==" [] op = "Ne" -> "!=" [] op = "Lt" -> "<"
      [] op = "Gt" -> ">" [] op = "Le" -> "<=" [] op = "Ge" -> ">="
      [] op = "And" -> "&&" [] op = "Or" -> "||" [] op = "BitAnd" -> "&"
      [] op = "BitOr" -> "|" [] op = "BitXor" -> "^" [] op = "Shl" -> "<<"
      [] op = "Shr" -> ">>"

\* bool::to_string
BoolText(b) == IF b THEN "true" ELSE "false"

RECURSIVE expression_to_move(_)
\* the callee of a Call is held by its name: Expression::Identifier(func)
expression_to_move(expr) ==
    CASE expr.k = "Number" -> <<ToString(expr.n)>>
      [] expr.k = "Bool" -> <<BoolText(expr.b)>>
      [] expr.k = "String" -> <<"b\"", expr.s, "\"">>
      [] expr.k = "Identifier" -> <<expr.name>>
      [] expr.k = "Binary" ->
           <<"(">> \o expression_to_move(expr.left) \o <<" ", binary_op_to_move(expr.op), " ">>
           \o expression_to_move(expr.right) \o <<")">>
      [] expr.k = "Call" ->
           <<expr.func, "(">>
           \o Join([i \in DOMAIN expr.args |-> expression_to_move(expr.args[i])], ", ")
           \o <<")">>
      [] OTHER -> <<"/* expr */">>

\* LValue::Identifier(name), the target of an Assign
lvalue_to_move(name) == <<name>>

RECURSIVE statement_to_move(_)
RECURSIVE MoveLines(_, _)
\* for s in block { push_str(indent); push_str(statement_to_move(s)); push_str("\n") }
MoveLines(block, indent) ==
    IF block = <<>> THEN <<>>
    ELSE <<indent>> \o statement_to_move(block[1]) \o <<"\n">>
         \o MoveLines(Tail(block), indent)

statement_to_move(stmt) ==
    CASE stmt.k = "Let" -> <<"let ", stmt.name, " = ">> \o expression_to_move(stmt.value) \o <<";">>
      [] stmt.k = "Assign" ->
           <<"*">> \o lvalue_to_move(stmt.target) \o <<" = ">>
           \o expression_to_move(stmt.value) \o <<";">>
      [] stmt.k = "Require" ->
           <<"assert!(">> \o expression_to_move(stmt.condition) \o <<", 1);">>
      [] stmt.k = "If" ->
           <<"if (">> \o expression_to_move(stmt.condition) \o <<") {\n">>
           \o MoveLines(stmt.then_block, "            ") \o <<"        }">>
           \o (IF stmt.else_block.some
               THEN <<" else {\n">> \o MoveLines(stmt.else_block.v, "            ")
                    \o <<"        }">>
               ELSE <<>>)
      [] stmt.k = "Emit" -> <<"event::emit(", stmt.event, " { /* fields */ });">>
      [] stmt.k = "Return" ->
           IF stmt.value.some THEN expression_to_move(stmt.value.v) ELSE <<"">>
      [] OTHER -> <<"// TODO">>

RECURSIVE MoveParams(_, _)
\* mutant: no separator between the parameters
MoveParams_NoSeparator(params, first) ==
    IF params = <<>> THEN <<>>
    ELSE <<params[1].name, ": ">> \o type_to_move(params[1].ty)
         \o MoveParams(Tail(params), FALSE)

\* the loop over func.params with its `first` flag
MoveParams(params, first) ==
    IF params = <<>> THEN <<>>
    ELSE (IF first THEN <<>> ELSE <<", ">>)
         \o <<params[1].name, ": ">> \o type_to_move(params[1].ty)
         \o MoveParams(Tail(params), FALSE)

\* MoveCodeGenerator::generate_function
move_generate_function(func) ==
    (CASE func.visibility = "Public" -> <<"    public ">>
       [] func.visibility = "Private" -> <<"    ">>
       [] func.visibility = "Internal" -> <<"    public(friend) ">>
       [] func.visibility = "External" -> <<"    public ">>)
    \o (IF func.visibility = "Public" THEN <<"entry ">> ELSE <<>>)
    \o <<"fun ", func.name, "(">>
    \o (IF func.visibility = "Public" THEN <<"account: &signer">> ELSE <<>>)
    \o MoveParams(func.params, func.visibility # "Public")
    \o <<")">>
    \o (IF func.return_type.some THEN <<": ">> \o type_to_move(func.return_type.v) ELSE <<>>)
    \o <<" acquires State", " {\n">>
    \o MoveLines(func.body, "        ")
    \o <<"    }\n">>

RECURSIVE MoveState(_)
\* the loop over contract.state
MoveState(state) ==
    IF state = <<>> THEN <<>>
    ELSE <<"        ", state[1].name, ": ">> \o type_to_move(state[1].ty) \o <<",\n">>
         \o MoveState(Tail(state))

RECURSIVE MoveFunctions(_)
\* the loop over contract.functions
MoveFunctions(functions) ==
    IF functions = <<>> THEN <<>>
    ELSE move_generate_function(functions[1]) \o <<"\n">> \o MoveFunctions(Tail(functions))

\* MoveCodeGenerator::transform_contract
move_transform_contract(c) ==
    <<"module cross_chain::", to_lowercase(c.name), " {\n">>
    \o <<"    use std::signer;\n", "    use aptos_framework::event;\n",
         "    use aptos_framework::timestamp;\n\n">>
    \o (IF c.state # <<>>
        THEN <<"    /// Main state resource\n", "    struct State has key {\n">>
             \o MoveState(c.state) \o <<"    }\n\n">>
        ELSE <<>>)
    \o MoveFunctions(c.functions)
    \o <<"}\n">>

\* mutant: the text carries the number of generate calls made before
move_generate_CountsCalls(c) == move_transform_contract(c) \o <<ToString(Len(emitted))>>

\* MoveCodeGenerator::generate: Ok(move_code)
move_generate(c) == move_transform_contract(c)

(***************************************************************************)
(* codegen/solana.rs                                                       *)
(***************************************************************************)
binary_op_to_rust(op) == IF op = "Pow" THEN ".pow" ELSE binary_op_to_move(op)

RECURSIVE expression_to_rust(_)
\* the callee of a Call is Expression::Identifier(func): func_name is func
expression_to_rust(expr) ==
    CASE expr.k = "Number" -> <<ToString(expr.n)>>
      [] expr.k = "Bool" -> <<BoolText(expr.b)>>
      [] expr.k = "String" -> <<"\"", expr.s, "\"">>
      [] expr.k = "Identifier" -> <<expr.name>>
      [] expr.k = "Binary" ->
           <<"(">> \o expression_to_rust(expr.left) \o <<" ", binary_op_to_rust(expr.op), " ">>
           \o expression_to_rust(expr.right) \o <<")">>
      [] expr.k = "Unary" ->
           <<(CASE expr.op = "Not" -> "!" [] expr.op = "Neg" -> "-" [] expr.op = "BitNot" -> "~"),
             "(">> \o expression_to_rust(expr.expr) \o <<")">>
      [] expr.k = "Call" ->
           <<expr.func, "(">>
           \o Join([i \in DOMAIN expr.args |-> expression_to_rust(expr.args[i])], ", ")
           \o <<")">>
      [] expr.k = "Index" ->
           expression_to_rust(expr.array) \o <<"[">> \o expression_to_rust(expr.index) \o <<"]">>
      [] OTHER -> <<"/* expr */">>

\* LValue::Identifier(name), the target of an Assign
lvalue_to_rust(name) == <<name>>

statement_to_rust(stmt) ==
    CASE stmt.k = "Let" -> <<"let ", stmt.name, " = ">> \o expression_to_rust(stmt.value) \o <<";">>
      [] stmt.k = "Assign" ->
           lvalue_to_rust(stmt.target) \o <<" = ">> \o expression_to_rust(stmt.value) \o <<";">>
      [] stmt.k = "Require" ->
           IF stmt.message.some
           THEN <<"require!(">> \o expression_to_rust(stmt.condition)
                \o <<", ErrorCode::InvalidParameter);">>
           ELSE <<"require!(">> \o expression_to_rust(stmt.condition) \o <<");">>
      [] stmt.k = "Emit" -> <<"emit!(", stmt.event, " { /* fields */ });">>
      [] stmt.k = "Return" ->
           IF stmt.value.some
           THEN <<"return Ok(">> \o expression_to_rust(stmt.value.v) \o <<");">>
           ELSE <<"return Ok(());">>
      [] OTHER -> <<"// TODO">>

RECURSIVE SolanaParams(_)
\* the loop over func.params
SolanaParams(params) ==
    IF params = <<>> THEN <<>>
    ELSE <<", ", params[1].name, ": ">> \o type_to_rust(params[1].ty)
         \o SolanaParams(Tail(params))

RECURSIVE SolanaBody(_)
\* the loop over func.body
SolanaBody(body) ==
    IF body = <<>> THEN <<>>
    ELSE <<"        ">> \o statement_to_rust(body[1]) \o <<"\n">> \o SolanaBody(Tail(body))

\* SolanaCodeGenerator::generate_function
solana_generate_function(func) ==
    <<"    pub fn ", func.name, "(ctx: Context<", capitalize(func.name), ">">>
    \o SolanaParams(func.params)
    \o <<") -> Result<()> {\n">>
    \o SolanaBody(func.body)
    \o <<"        Ok(())\n", "    }\n">>

RECURSIVE SolanaAccounts(_, _)
\* the loop of generate_accounts over contract.functions
SolanaAccounts(functions, has_state) ==
    IF functions = <<>> THEN <<>>
    ELSE <<"#[derive(Accounts)]\n", "pub struct ", capitalize(functions[1].name), " {\n",
           "    #[account(mut)]\n", "    pub user: Signer<'info>,\n">>
         \o (IF has_state
             THEN <<"    #[account(\n", "        mut,\n", "        seeds = [b\"state\"],\n",
                    "        bump\n", "    )]\n", "    pub state: Account<'info, State>,\n">>
             ELSE <<>>)
         \o <<"    pub system_program: Program<'info, System>,\n", "}\n\n">>
         \o SolanaAccounts(Tail(functions), has_state)

generate_accounts(c) == SolanaAccounts(c.functions, c.state # <<>>)

RECURSIVE SolanaState(_)
\* the loop of generate_state over contract.state
SolanaState(state) ==
    IF state = <<>> THEN <<>>
    ELSE <<"    pub ", state[1].name, ": ">> \o type_to_rust(state[1].ty) \o <<",\n">>
         \o SolanaState(Tail(state))

generate_state(c) ==
    <<"#[account]\n", "pub struct State {\n">> \o SolanaState(c.state) \o <<"}\n\n">>

generate_errors ==
    <<"#[error_code]\n", "pub enum ErrorCode {\n", "    #[msg(\"Unauthorized\")]\n",
      "    Unauthorized,\n", "    #[msg(\"Insufficient balance\")]\n",
      "    InsufficientBalance,\n", "    #[msg(\"Invalid parameter\")]\n",
      "    InvalidParameter,\n", "}\n">>

RECURSIVE SolanaFunctions(_)
\* the loop over contract.functions
SolanaFunctions(functions) ==
    IF functions = <<>> THEN <<>>
    ELSE solana_generate_function(functions[1]) \o <<"\n">>
         \o SolanaFunctions(Tail(functions))

\* SolanaCodeGenerator::transform_contract
solana_transform_contract(c) ==
    <<"use anchor_lang::prelude::*;\n\n",
      "declare_id!(\"11111111111111111111111111111111\");\n\n",
      "#[program]\npub mod ", to_lowercase(c.name), " {\n", "    use super::*;\n\n">>
    \o SolanaFunctions(c.functions)
    \o <<"}\n\n">>
    \o generate_accounts(c)
    \o generate_state(c)
    \o generate_errors

\* SolanaCodeGenerator::generate: Ok(solana_code)
solana_generate(c) == solana_transform_contract(c)

(***************************************************************************)
(* The generators run on a contract: each generate call is recorded with   *)
(* the text it returned.                                                   *)
(***************************************************************************)
BaseTypes == {Primitive(n) : n \in PrimitiveNames} \cup {StructType("Point")}
KeyTypes == {Primitive("Address"), Primitive("I64")}
ErrTypes == {Primitive("I128")}

RECURSIVE TypesOfDepth(_)
\* the types nested at most d deep
TypesOfDepth(d) ==
    IF d <= 1 THEN BaseTypes
    ELSE TypesOfDepth(d - 1)
         \cup {VecType(t) : t \in TypesOfDepth(d - 1)}
         \cup {ArrayType(t, 4) : t \in TypesOfDepth(d - 1)}
         \cup {OptionType(t) : t \in TypesOfDepth(d - 1)}
         \cup {MapType(key, t) : key \in KeyTypes, t \in TypesOfDepth(d - 1)}
         \cup {ResultType(t, err) : t \in TypesOfDepth(d - 1), err \in ErrTypes}
         \cup {TupleType(<<t, key>>) : t \in TypesOfDepth(d - 1), key \in KeyTypes}
         \cup {TupleType(<<>>)}

SourceTypes == TypesOfDepth(MaxTypeDepth)

\* one state variable and one public function over the type t
TypedContract(t) ==
    SourceContract("Token", <<StateVariable("balance", t, TRUE)>>,
                   <<SourceFunction("Public", "transfer", <<Parameter("amount", t, FALSE)>>,
                                    Some(t), <<>>)>>)

SourceParams ==
    {Parameter("to", Primitive("Address"), FALSE), Parameter("amount", Primitive("I64"), TRUE)}
SourceParamLists == UNION {[1 .. n -> SourceParams] : n \in 0 .. MaxArgs}
TotalState == <<StateVariable("total", Primitive("U64"), TRUE)>>
SourceStates == {<<>>, TotalState}

\* one function with the header (visibility, name, params, return_type)
HeaderContract(visibility, name, params, return_type, state) ==
    SourceContract("VAULT", state,
                   <<SourceFunction(visibility, name, SeqOf(params, Len(params)), return_type,
                                    <<>>)>>)

SourceStmts ==
    { Let("x", Number(1)),
      Assign("total", Binary("Add", Identifier("total"), Identifier("x"))),
      Require(Binary("Gt", Identifier("x"), Number(0)), Some("positive")),
      Require(Bool(TRUE), None),
      If(Identifier("flag"), <<Return(Some(Identifier("x")))>>, None),
      If(Identifier("flag"), <<Let("y", String("s"))>>, Some(<<Return(None)>>)),
      Emit("Transfer", <<Identifier("x")>>),
      Return(Some(Call("get", <<Identifier("x"), Number(2)>>))),
      ExprStmt(Unary("Not", Identifier("flag"))),
      While(Bool(TRUE), <<>>) }
SourceBodies == UNION {[1 .. n -> SourceStmts] : n \in 0 .. MaxStmts}

\* two functions, the first with the body
BodyContract(body) ==
    SourceContract("c", TotalState,
                   <<SourceFunction("Public", "mint", <<>>, None, SeqOf(body, Len(body))),
                     SourceFunction("Private", "_f", <<>>, None, <<>>)>>)

EmitInit ==
    /\ \/ \E t \in SourceTypes : source = TypedContract(t)
       \/ \E visibility \in Visibility, name \in {"transfer", "get"},
             params \in SourceParamLists, return_type \in {None, Some(Primitive("U64"))},
             state \in SourceStates :
             source = HeaderContract(visibility, name, params, return_type, state)
       \/ \E body \in SourceBodies : source = BodyContract(body)
    /\ emitted = <<>>
    /\ OptIdle
    /\ AnIdle
    /\ SymIdle
    /\ CompileIdle
    /\ TypeIdle

\* MoveCodeGenerator::new().generate(&contract)
MoveGenerate ==
    /\ Len(emitted) < MaxEmits
    /\ emitted' = Append(emitted, [generator |-> "move", text |-> move_generate(source)])
    /\ UNCHANGED <<source, optvars, anvars, symvars, cvars, tvars>>

\* SolanaCodeGenerator::new().generate(&contract)
SolanaGenerate ==
    /\ Len(emitted) < MaxEmits
    /\ emitted' = Append(emitted, [generator |-> "solana", text |-> solana_generate(source)])
    /\ UNCHANGED <<source, optvars, anvars, symvars, cvars, tvars>>

EmitNext == MoveGenerate \/ SolanaGenerate

EmitSpec == EmitInit /\ [][EmitNext]_vars

TypesIn(c) ==
    {c.state[i].ty : i \in DOMAIN c.state}
    \cup UNION {{c.functions[i].params[j].ty : j \in DOMAIN c.functions[i].params} :
                   i \in DOMAIN c.functions}
    \cup {c.functions[i].return_type.v :
             i \in {j \in DOMAIN c.functions : c.functions[j].return_type.some}}

RECURSIVE Components(_)
\* a type and every type nested in it
Components(t) ==
    {t} \cup
    CASE t.k \in {"Vec", "Array", "Option"} -> Components(t.t)
      [] t.k = "Map" -> Components(t.key) \cup Components(t.value)
      [] t.k = "Result" -> Components(t.ok) \cup Components(t.err)
      [] t.k = "Tuple" -> UNION {Components(t.types[i]) : i \in DOMAIN t.types}
      [] OTHER -> {}

\* the unsigned type of equal bit width
UnsignedOf(name) ==
    CASE name = "I8" -> "U8" [] name = "I16" -> "U16" [] name = "I32" -> "U32"
      [] name = "I64" -> "U64" [] name = "I128" -> "U128"

MoveUnsigned(name) ==
    CASE name = "U8" -> "u8" [] name = "U16" -> "u16" [] name = "U32" -> "u32"
      [] name = "U64" -> "u64" [] name = "U128" -> "u128" [] name = "U256" -> "u256"

SignedTypeNames == {"i8", "i16", "i32", "i64", "i128"}

\* the mapping of one type as the claim states it, given the mapping of its
\* component types
MappedAsClaimed(t) ==
    CASE t.k \in UnsignedNames -> type_to_move(t) = <<MoveUnsigned(t.k)>>
      [] t.k \in SignedNames -> type_to_move(t) = <<MoveUnsigned(UnsignedOf(t.k))>>
      [] t.k \in {"String", "Bytes"} -> type_to_move(t) = <<"vector<u8>">>
      [] t.k \in {"Vec", "Array"} ->
           type_to_move(t) = <<"vector<">> \o type_to_move(t.t) \o <<">">>
      [] t.k = "Map" ->
           type_to_move(t) = <<"aptos_std::simple_map::SimpleMap<">> \o type_to_move(t.key)
                             \o <<", ">> \o type_to_move(t.value) \o <<">">>
      [] t.k = "Option" ->
           \E n \in 1 .. Len(type_to_move(t)) :
              SubSeq(type_to_move(t), n, n + Len(type_to_move(t.t)) - 1) = type_to_move(t.t)
      [] OTHER -> TRUE

NoSignedName(text) == \A n \in DOMAIN text : text[n] \notin SignedTypeNames

\* C23: Move type mapping: type_to_move maps each unsigned width to the same
\* width, each signed width to the unsigned type of equal bit width, String
\* and Bytes to vector<u8>, Vec(T) and Array(T, n) to vector<map(T)>,
\* Map(K, V) to the simple-map type over map(K) and map(V), recursively in
\* every component type, so no signed type name appears in Move output.
C23_MoveTypeMapping ==
    \A i \in DOMAIN emitted :
       emitted[i].generator = "move" =>
          /\ NoSignedName(emitted[i].text)
          /\ \A t \in TypesIn(source) :
                /\ NoSignedName(type_to_move(t))
                /\ \A u \in Components(t) : MappedAsClaimed(u)

\* the Move generator has run on a contract that holds a signed type nested
\* in a map nested in a vector
C23_Witness ==
    /\ Len(emitted) = 1
    /\ emitted[1].generator = "move"
    /\ source = TypedContract(VecType(MapType(Primitive("I64"), Primitive("I128"))))

RECURSIVE IsInfixFrom(_, _, _)
\* part occurs in text at position n or later
IsInfixFrom(part, text, n) ==
    IF n + Len(part) - 1 > Len(text) THEN FALSE
    ELSE IF SubSeq(text, n, n + Len(part) - 1) = part THEN TRUE
    ELSE IsInfixFrom(part, text, n + 1)

\* the header of a function as the claim states it
ClaimedHeader(f) ==
    (CASE f.visibility = "Public" -> <<"    public ", "entry ">>
       [] f.visibility = "External" -> <<"    public ">>
       [] f.visibility = "Internal" -> <<"    public(friend) ">>
       [] f.visibility = "Private" -> <<"    ">>)
    \o <<"fun ", f.name, "(">>
    \o Join((IF f.visibility = "Public" THEN <<<<"account: &signer">>>> ELSE <<>>)
            \o [j \in DOMAIN f.params |->
                   <<f.params[j].name, ": ">> \o type_to_move(f.params[j].ty)],
            ", ")
    \o <<")">>
    \o (IF f.return_type.some THEN <<": ">> \o type_to_move(f.return_type.v) ELSE <<>>)
    \o <<" acquires State", " {\n">>

\* C24: Move function header lowering: a Public function is emitted as
\* `public entry fun` with `account: &signer` as its first parameter followed
\* by the declared parameters in order; External is emitted with the same
\* `public` visibility; Internal as `public(friend)`; Private with no
\* visibility keyword; every emitted function carries `acquires State`.
C24_MoveFunctionHeader ==
    \A i \in DOMAIN emitted :
       emitted[i].generator = "move" =>
          \A n \in DOMAIN source.functions :
             IsInfixFrom(ClaimedHeader(source.functions[n]), emitted[i].text, 1)

\* the Move generator has run on a public function of two parameters
C24_Witness ==
    /\ Len(emitted) = 1
    /\ emitted[1].generator = "move"
    /\ source.functions[1].visibility = "Public"
    /\ Len(source.functions[1].params) = 2
    /\ source.functions[1].params[1].name # source.functions[1].params[2].name
    /\ source.functions[1].return_type.some

(***************************************************************************)
(* Claims about the optimizer's constant environment.                      *)
(***************************************************************************)
\* the variables a block assigns
AssignedIn(block) == {block[i].target : i \in {j \in DOMAIN block : block[j].k = "Assign"}}

BranchAssigns(s) ==
    AssignedIn(s.then_block)
    \cup (IF s.else_block.some THEN AssignedIn(s.else_block.v) ELSE {})

\* the first run on a contract of one function: the body given and the body
\* rewritten hold the same number of statements, so they correspond by index
FirstRunAligned ==
    /\ runs = 1
    /\ Len(original.functions) = 1
    /\ Len(contract.functions[1].body) = Len(original.functions[1].body)

\* C25: constant environment across blocks: after an If statement with a
\* non-literal condition whose then-block or else-block assigns a variable
\* v, the constant environment holds no literal for v, and no use of v in
\* the statement following the If is replaced by a literal.
C25_BranchAssignmentsInvalidated ==
    FirstRunAligned =>
        LET b == original.functions[1].body
            out == contract.functions[1].body
        IN  (b # <<>> /\ b[1].k = "If" /\ ~is_constant(b[1].condition)) =>
               \A v \in BranchAssigns(b[1]) :
                  /\ Len(b) = 1 => v \notin DOMAIN optimizer.constant_values
                  /\ (Len(b) >= 2 /\ b[2].k \in {"Return", "Emit"} /\ v \in StmtUses(b[2]))
                        => v \in StmtUses(out[2])

\* the part that holds: an assignment of a non-literal that is a statement
\* of the function body itself invalidates the literal of its target
AssignInvalidates ==
    FirstRunAligned =>
        LET b == original.functions[1].body
            out == contract.functions[1].body
        IN  (b # <<>> /\ b[Len(b)].k = "Assign" /\ ~is_constant(out[Len(b)].value)) =>
               b[Len(b)].target \notin DOMAIN optimizer.constant_values

\* C30: stale constants on rebinding: after the optimizer processes a Let
\* whose optimized initializer is not a literal, its constant environment
\* holds no literal for that name, so a later use of the name is never
\* replaced by a literal recorded for an earlier binding of the same name.
C30_RebindingInvalidates ==
    FirstRunAligned =>
        LET b == original.functions[1].body
            out == contract.functions[1].body
        IN  \A i \in DOMAIN b :
               (b[i].k = "Let" /\ ~is_constant(out[i].value)) =>
                  /\ i = Len(b) => b[i].name \notin DOMAIN optimizer.constant_values
                  /\ (i < Len(b) /\ b[i + 1].k \in {"Return", "Emit"}
                      /\ b[i].name \in StmtUses(b[i + 1]))
                        => b[i].name \in StmtUses(out[i + 1])

\* the part that holds: a Let of a literal records the literal, and a Let of
\* a name that has no literal recorded leaves it without one
LetTracksLiterals ==
    FirstRunAligned =>
        LET b == original.functions[1].body
            out == contract.functions[1].body
        IN  (Len(b) = 1 /\ b[1].k = "Let") =>
               IF is_constant(out[1].value)
               THEN /\ b[1].name \in DOMAIN optimizer.constant_values
                    /\ optimizer.constant_values[b[1].name] = out[1].value
               ELSE b[1].name \notin DOMAIN optimizer.constant_values

(***************************************************************************)
(* Claims about the scopes of semantic_analyzer.rs after analyze.          *)
(***************************************************************************)
\* the table holds the contract frame only, with state variables only
ContractFrameOnly(t) ==
    /\ Len(t.scopes) = 1
    /\ t.current_scope_level = 0
    /\ \A n \in DOMAIN t.scopes[1] : t.scopes[1][n].kind = "StateVariable"

\* C26: scope restoration on failure: whenever checking a statement fails
\* inside a nested block or inside a function body, every frame pushed for
\* that block and that function is popped before control leaves
\* check_function, so after check_function returns (with success or with an
\* error) the symbol table is back to the contract frame only (depth 0) and
\* contains no parameter or local of that function.
C26_ScopeRestoredOnFailure ==
    sa_result.some => ContractFrameOnly(sa_result.v.x.symbol_table)

\* the part that holds: the frames are popped when no statement fails
ScopeRestoredOnSuccess ==
    (sa_result.some /\ sa_result.v.ok) => ContractFrameOnly(sa_result.v.x.symbol_table)

(***************************************************************************)
(* TypeInference (semantic_analyzer.rs) on its own: constraints are added  *)
(* and solve is called.                                                    *)
(***************************************************************************)
\* TypeInference::new()
NewTypeInference == [constraints |-> <<>>, substitutions |-> <<>>]

InferBase == BaseTypes \cup {StructType("Pair")}

\* the pair (s, t) under each type constructor
Wrapped(s, t) ==
    { <<s, t>>,
      <<VecType(s), VecType(t)>>,
      <<OptionType(s), OptionType(t)>>,
      <<ArrayType(s, 4), ArrayType(t, 4)>>,
      <<TupleType(<<s>>), TupleType(<<t>>)>>,
      <<MapType(s, Primitive("U64")), MapType(t, Primitive("U64"))>>,
      <<MapType(Primitive("Address"), s), MapType(Primitive("Address"), t)>>,
      <<ResultType(s, Primitive("U8")), ResultType(t, Primitive("U8"))>>,
      <<ResultType(Primitive("Bool"), s), ResultType(Primitive("Bool"), t)>>,
      <<VecType(s), OptionType(t)>>,
      <<VecType(VecType(s)), VecType(VecType(t))>> }

TypePairs ==
    UNION {Wrapped(s, t) : s \in InferBase, t \in InferBase}
    \cup {<<t, t>> : t \in SourceTypes}

FirstConstraints ==
    {Equal(p[1], p[2]) : p \in TypePairs} \cup {Subtype(p[1], p[2]) : p \in TypePairs}

\* the constraints added after the first: one of each kind that solve
\* accepts and one that it rejects
LaterConstraints ==
    { Equal(Primitive("U64"), Primitive("U64")), Equal(Primitive("U64"), Primitive("Bool")),
      Subtype(Primitive("U8"), Primitive("U64")), Subtype(Primitive("U64"), Primitive("U8")) }

TypeInit ==
    /\ \/ inference = NewTypeInference
       \/ \E c \in FirstConstraints :
             inference = [NewTypeInference EXCEPT !.constraints = <<c>>]
    /\ solved = None
    /\ OptIdle
    /\ AnIdle
    /\ SymIdle
    /\ CompileIdle
    /\ EmitIdle

\* TypeInference::add_constraint
AddConstraint ==
    /\ ~solved.some
    /\ inference.constraints # <<>>
    /\ Len(inference.constraints) < MaxConstraints
    /\ \E c \in LaterConstraints :
          inference' = [inference EXCEPT !.constraints = Append(@, c)]
    /\ UNCHANGED <<solved, optvars, anvars, symvars, cvars, evars>>

\* TypeInference::solve; given records the constraints solve was called on
Solve ==
    /\ ~solved.some
    /\ solved' = Some([given |-> inference.constraints,
                       ok |-> solve(inference.constraints).ok,
                       err |-> solve(inference.constraints).err])
    /\ inference' = [inference EXCEPT !.constraints = solve(inference.constraints).constraints]
    /\ UNCHANGED <<optvars, anvars, symvars, cvars, evars>>

TypeNext == AddConstraint \/ Solve

TypeSpec == TypeInit /\ [][TypeNext]_vars

(***************************************************************************)
(* Claims about TypeInference.                                             *)
(***************************************************************************)
\* solve has been called on one constraint of the kind
SolvedOne(kind) ==
    /\ solved.some
    /\ Len(solved.v.given) = 1
    /\ solved.v.given[1].k = kind

\* C27: equality constraints: solve accepts Equal(t1, t2) exactly when t1
\* and t2 are structurally the same type; in particular Equal(t, t) is
\* accepted for every type t of the Type model, and Equal(U64, Bool) is
\* rejected.
C27_EqualIsStructural ==
    SolvedOne("Equal") =>
        (solved.v.ok <=> solved.v.given[1].t1 = solved.v.given[1].t2)

\* the part that holds: solve accepts no Equal of two different types, it
\* accepts Equal(U64, U64) and rejects Equal(U64, Bool)
EqualAcceptedOnlyIfSame ==
    SolvedOne("Equal") =>
        /\ solved.v.ok => solved.v.given[1].t1 = solved.v.given[1].t2
        /\ solved.v.given[1] = Equal(Primitive("U64"), Primitive("U64")) => solved.v.ok
        /\ solved.v.given[1] = Equal(Primitive("U64"), Primitive("Bool")) => ~solved.v.ok

\* the bit width of an integer type
Width(name) ==
    CASE name \in {"U8", "I8"} -> 8 [] name \in {"U16", "I16"} -> 16
      [] name \in {"U32", "I32"} -> 32 [] name \in {"U64", "I64"} -> 64
      [] name \in {"U128", "I128"} -> 128 [] name = "U256" -> 256

UnsignedChain == {"U8", "U16", "U32", "U64", "U128"}
SignedChain == {"I8", "I16", "I32", "I64", "I128"}

Widens(sub, super, chain) ==
    sub.k \in chain /\ super.k \in chain /\ Width(sub.k) <= Width(super.k)

\* C28: subtype constraints: solve accepts Subtype(s, t) exactly when s = t,
\* or s and t are both unsigned with width(s) <= width(t) in the chain
\* U8 <= U16 <= U32 <= U64 <= U128, or both signed with width(s) <= width(t)
\* in the chain I8 <= I16 <= I32 <= I64 <= I128; it rejects every pair of one
\* signed and one unsigned type and every narrowing pair.
C28_SubtypeLattice ==
    SolvedOne("Subtype") =>
        (solved.v.ok <=>
            \/ solved.v.given[1].sub = solved.v.given[1].super
            \/ Widens(solved.v.given[1].sub, solved.v.given[1].super, UnsignedChain)
            \/ Widens(solved.v.given[1].sub, solved.v.given[1].super, SignedChain))

\* the part that holds: equal types and the unsigned chain, and nothing else
SubtypeUnsignedLattice ==
    SolvedOne("Subtype") =>
        (solved.v.ok <=>
            \/ solved.v.given[1].sub = solved.v.given[1].super
            \/ Widens(solved.v.given[1].sub, solved.v.given[1].super, UnsignedChain))
=============================================================================
